---- MODULE Spec2Model ----
(***************************************************************************)
(* Reverse tunnel: the control server (src/unnamed/part_002) and the       *)
(* tunnel client (src/client.ts).  One state machine: the server's maps,   *)
(* every net.Server it created, every external socket it accepted, the     *)
(* frames in flight on every control channel, and every client process     *)
(* with its local sockets.  One action per event handler of the code.      *)
(***************************************************************************)
EXTENDS Naturals, Integers, Sequences, FiniteSets, TLC

\* ---------------------------------------------------------------- bounds
NumChans == 2        \* control connections (one client process each)
NumConns == 2        \* external TCP connections that ever arrive
NumIds == 2          \* size of the link id space the model draws from
MaxExtReads == 2     \* "data" events on external sockets, all together
MaxLocReads == 1     \* "data" events on local sockets, all together
MaxSockets == 3      \* control connections plus external connections
MaxReads == 2

Chans == 1..NumChans
Conns == 1..NumConns
LinkIds == 0..(NumIds - 1)

\* ------------------------------------------------------ program constants
MAX_BUFFER_SIZE == 1 * 1024 * 1024
PING_INTERVAL == 5000
PING_TIMEOUT == 30000
\* The client's limit on the time since the last ping, in ms.
LAST_PING_LIMIT == 30000

OPEN == 0
CLOSE == 1
DATA == 2
BIND == 10
BIND_ACK == 11

\* Bytes of the frame header (type and link id) and of the port in a BIND.
HEADER == 8
PORT_BYTES == 2

\* The bind rule of the clients: every client asks for the same endpoint.
Keys == {"localhost:9000"}
\* Lengths of the chunks an external socket delivers.
ChunkLens == {1, MAX_BUFFER_SIZE - 1, MAX_BUFFER_SIZE + 1}
\* What a connecting peer presents to admission.
Certs == {"nocert", "nokey", "unlisted", "listed"}

VARIABLES
    wsState,        \* server's view of each control connection
    clients,        \* keys of the clients map
    links,          \* client record .links, per channel (kept by closures)
    boundServers,   \* client record .boundServers, per channel
    activeServers,  \* key -> [server, clients]
    netServers,     \* the net.Server a channel's BIND created
    activeLinkIds,  \* the live id set
    ext,            \* external sockets
    toClient,       \* frames in flight server -> client, per channel
    toServer,       \* frames in flight client -> server, per channel
    cli,            \* client process state, per channel
    clinks,         \* the client's links map, per channel
    loc,            \* local sockets, one per OPEN the client handled
    unavailable,    \* endpoints the host cannot listen on at all
    bindLog,        \* history: BIND frames processed and acks sent
    mon,            \* liveness monitor: isAlive, pingTimeout, pings and pongs
    codec,          \* a message on its way through encodeMessage and decodeMessage
    authorizedClients,  \* the allow-list array
    authFile,       \* the file at authorizedClientsPath and its watcher
    supervisor      \* the shell loop that runs the client, when there is one

vars == <<wsState, clients, links, boundServers, activeServers, netServers,
          activeLinkIds, ext, toClient, toServer, cli, clinks, loc,
          unavailable, bindLog, mon, codec, authorizedClients, authFile, supervisor>>

\* ---------------------------------------------------------------- frames
NoChunk == [side |-> "", sock |-> 0, idx |-> 0]

\* encodeMessage(type, linkId, content): wire is the length of the message
\* in bytes, header and content.
Frame(t, l) ==
    [type |-> t, linkId |-> l, key |-> "", success |-> FALSE,
     chunk |-> NoChunk, len |-> 0, src |-> 0, wire |-> HEADER]

\* OPEN from the server; src is history: the accepted connection it is for.
OpenFrame(l, s) == [Frame(OPEN, l) EXCEPT !.src = s]
DataFrame(l, ck, n) ==
    [Frame(DATA, l) EXCEPT !.chunk = ck, !.len = n, !.wire = HEADER + n]
\* The content of a BIND is the port and a host name of at least one byte.
BindFrame(l, k) ==
    [Frame(BIND, l) EXCEPT !.key = k, !.wire = HEADER + PORT_BYTES + 1]
\* The content of a BIND_ACK is a JSON object, "{}" at the least.
AckFrame(l, ok) ==
    [Frame(BIND_ACK, l) EXCEPT !.success = ok, !.wire = HEADER + 2]

\* ------------------------------------------------------- map operations
MapSet(f, k, v) == [x \in (DOMAIN f) \cup {k} |-> IF x = k THEN v ELSE f[x]]
MapDel(f, k) == [x \in (DOMAIN f) \ {k} |-> f[x]]
EmptyMap == [x \in {} |-> 0]

NoServer == [state |-> "none", key |-> "", bindId |-> 0]
NoExt == [state |-> "none", owner |-> 0, id |-> 0, nread |-> 0,
          written |-> <<>>, nsent |-> 0, overflowed |-> FALSE,
          acceptOk |-> FALSE, afterClose |-> FALSE]
NoLoc == [state |-> "none", chan |-> 0, id |-> 0, nread |-> 0,
          written |-> <<>>, nAck |-> 0, nClose |-> 0, connected |-> FALSE]

\* No message is in the codec.
NoCodec == [stage |-> "none"]

\* The client runs without a supervisor.
NoSupervisor == [pc |-> "none", run |-> 0, exit_code |-> 0, slept |-> 0]

\* The elements of array a.
Elements(a) == {a[i] : i \in 1..Len(a)}

\* line.trim() of a line of the allow-list file
trim(line) == IF line \in {"", " "} THEN "" ELSE line

\* .filter(line => line.trim() !== '')
RECURSIVE nonBlank(_)
nonBlank(lines) ==
    IF lines = <<>> THEN <<>>
    ELSE IF trim(Head(lines)) # "" THEN <<Head(lines)>> \o nonBlank(Tail(lines))
    ELSE nonBlank(Tail(lines))

\* The allow-list file: whether it can be read, its lines (data.split of
\* its text), whether a "change" event of fs.watch is waiting to be handled,
\* and, as history, how the last call of loadAuthorizedClients ended and
\* the lines the last call that could read the file has read.
NewFile(ok, lines) ==
    [readable |-> ok, lines |-> lines, changed |-> FALSE, last |-> "loaded",
     loaded |-> lines]
ListedFile == NewFile(TRUE, <<"listed">>)

\* The monitor's record of a channel: client.isAlive, whether pingTimeout is
\* armed and how many ping intervals it has been running, the pings and
\* pongs in flight, and (history) how many pongs the server has received.
\* On the client's end: age, the ping intervals since lastPingTime.  Of the
\* path between them: hole, it has stopped carrying pings and pongs.
NoMon == [isAlive |-> FALSE, armed |-> FALSE, idle |-> 0, pings |-> 0, pongs |-> 0,
          answered |-> 0, age |-> 0, hole |-> FALSE]

\* pingTimeout in ping intervals.
TimeoutTicks == PING_TIMEOUT \div PING_INTERVAL
\* The client's limit in ping intervals.
LimitTicks == LAST_PING_LIMIT \div PING_INTERVAL

clientVars == <<cli, clinks, loc>>
bindVars == <<boundServers, activeServers, netServers, bindLog>>

\* -------------------------------------------------------------- sending
\* ws.send on the server: the frame reaches the queue only while the socket
\* is OPEN and a peer process is still there to read it.
SrvSend(c, fs) ==
    IF wsState[c] = "open" /\ cli[c] # "exited"
    THEN toClient[c] \o fs ELSE toClient[c]

\* controlSocket?.send on the client.  A socket the server has closed with
\* 1001 still takes what the client sends until the close is complete.
CliSend(c, fs) ==
    IF wsState[c] \in {"open", "rejected"} THEN toServer[c] \o fs ELSE toServer[c]

\* socket.end() on an external socket: half-close; "close" comes later.
EndSocket(e, s) ==
    IF e[s].state = "open" THEN [e EXCEPT ![s].state = "ended"] ELSE e

\* The servers that are listening on key k.
Listening(k) ==
    {c \in Chans : netServers[c].state = "listening" /\ netServers[c].key = k}

\* What the run has used of the bounds.
RECURSIVE Sum(_, _)
Sum(f, S) == IF S = {} THEN 0
             ELSE LET x == CHOOSE y \in S : TRUE IN f[x] + Sum(f, S \ {x})
ExtReads == Sum([s \in Conns |-> ext[s].nread], Conns)
LocReads == Sum([s \in Conns |-> loc[s].nread], Conns)
Sockets == Cardinality({c \in Chans : wsState[c] # "none"})
           + Cardinality({s \in Conns : ext[s].state # "none"})

\* ------------------------------------------------------------------ Init
Init ==
    /\ wsState = [c \in Chans |-> "none"]
    /\ clients = {}
    /\ links = [c \in Chans |-> EmptyMap]
    /\ boundServers = [c \in Chans |-> {}]
    /\ activeServers = EmptyMap
    /\ netServers = [c \in Chans |-> NoServer]
    /\ activeLinkIds = {}
    /\ ext = [s \in Conns |-> NoExt]
    /\ toClient = [c \in Chans |-> <<>>]
    /\ toServer = [c \in Chans |-> <<>>]
    /\ cli = [c \in Chans |-> "connecting"]
    /\ clinks = [c \in Chans |-> EmptyMap]
    /\ loc = [s \in Conns |-> NoLoc]
    /\ unavailable \in SUBSET Keys
    /\ bindLog = [c \in Chans |-> [req |-> <<>>, acks |-> <<>>]]
    /\ mon = [c \in Chans |-> NoMon]
    /\ codec = NoCodec
    /\ authFile = ListedFile
    /\ supervisor = NoSupervisor
    /\ authorizedClients = nonBlank(ListedFile.lines)

\* ------------------------------------------------ server: admission
isWhitelisted(cert) == cert \in Elements(authorizedClients)

\* heartbeat(ws): mark alive and restart the 30 s pingTimeout
heartbeat(m, c) ==
    IF c \in clients
    THEN [m EXCEPT ![c].isAlive = TRUE, ![c].armed = TRUE, ![c].idle = 0]
    ELSE m

\* onConnection that registers the client before it looks at the
\* certificate.
onConnection_RegistersFirst(c, cert) ==
    /\ wsState[c] = "none"
    /\ \A b \in Chans : b < c => wsState[b] \notin {"none", "crashed"}
    /\ cli[c] = "connecting"
    /\ clients' = clients \cup {c}
    /\ links' = [links EXCEPT ![c] = EmptyMap]
    /\ boundServers' = [boundServers EXCEPT ![c] = {}]
    /\ mon' = [mon EXCEPT ![c] = [NoMon EXCEPT !.isAlive = TRUE, !.armed = TRUE]]
    /\ wsState' = [wsState EXCEPT ![c] = IF cert = "listed" THEN "open" ELSE "rejected"]
    /\ UNCHANGED <<activeServers, netServers, activeLinkIds, ext, toClient,
                   toServer, cli, clinks, loc, unavailable, codec,
                   authorizedClients, authFile, supervisor, bindLog>>

\* controlServer.on("connection"): ws.close(1001, ...) and return, or
\* register the client, start the heartbeat and attach the handlers
onConnection(c, cert) ==
    /\ wsState[c] = "none"
    /\ \A b \in Chans : b < c => wsState[b] \notin {"none", "crashed"}
    /\ cli[c] = "connecting"
    /\ IF cert = "nocert" \/ cert = "nokey" \/ ~isWhitelisted(cert)
       THEN /\ wsState' = [wsState EXCEPT ![c] = "rejected"]
            /\ UNCHANGED <<clients, links, boundServers, mon>>
       ELSE /\ wsState' = [wsState EXCEPT ![c] = "open"]
            /\ clients' = clients \cup {c}
            /\ links' = [links EXCEPT ![c] = EmptyMap]
            /\ boundServers' = [boundServers EXCEPT ![c] = {}]
            /\ mon' = [mon EXCEPT ![c] = [NoMon EXCEPT !.isAlive = TRUE, !.armed = TRUE]]
    /\ UNCHANGED <<activeServers, netServers, activeLinkIds, ext, toClient,
                   toServer, cli, clinks, loc, unavailable, codec,
                   authorizedClients, authFile, supervisor, bindLog>>

\* ------------------------------------------------ server: bind registry
LogReq(c, f) == [bindLog EXCEPT ![c].req = Append(@, f.linkId)]
LogAck(log, c, l, ok) ==
    [log EXCEPT ![c].acks = Append(@, [linkId |-> l, success |-> ok])]

\* bindExisting that joins the entry but forgets to answer the client.
bindExisting_NoAck(c, f) ==
    /\ activeServers' = [activeServers EXCEPT ![f.key].clients = @ \cup {c}]
    /\ boundServers' = [boundServers EXCEPT ![c] = @ \cup {f.key}]
    /\ bindLog' = LogReq(c, f)
    /\ UNCHANGED <<netServers, toClient>>

\* handleControlData, type 10, an entry for the key exists
bindExisting(c, f) ==
    /\ activeServers' = [activeServers EXCEPT ![f.key].clients = @ \cup {c}]
    /\ boundServers' = [boundServers EXCEPT ![c] = @ \cup {f.key}]
    /\ toClient' = [toClient EXCEPT ![c] = SrvSend(c, <<AckFrame(f.linkId, TRUE)>>)]
    /\ bindLog' = LogAck(LogReq(c, f), c, f.linkId, TRUE)
    /\ UNCHANGED netServers

\* handleControlData, type 10, no entry: createServer and server.listen
bindCreate(c, f) ==
    /\ netServers' = [netServers EXCEPT
                         ![c] = [state |-> "pending", key |-> f.key, bindId |-> f.linkId]]
    /\ bindLog' = LogReq(c, f)
    /\ UNCHANGED <<activeServers, boundServers, toClient>>

\* handleControlData, type 10
onBind(c, f) ==
    /\ IF f.key \in DOMAIN activeServers THEN bindExisting(c, f) ELSE bindCreate(c, f)
    /\ UNCHANGED <<links, activeLinkIds, ext>>

\* server.listen callback: the endpoint is now listening
listenCallback(c) ==
    LET k == netServers[c].key
        l == netServers[c].bindId
    IN  /\ netServers[c].state = "pending"
        /\ k \notin unavailable
        /\ Listening(k) = {}
        /\ netServers' = [netServers EXCEPT ![c].state = "listening"]
        /\ activeServers' = MapSet(activeServers, k, [server |-> c, clients |-> {c}])
        /\ boundServers' = [boundServers EXCEPT ![c] = @ \cup {k}]
        /\ toClient' = [toClient EXCEPT ![c] = SrvSend(c, <<AckFrame(l, TRUE)>>)]
        /\ bindLog' = LogAck(bindLog, c, l, TRUE)
        /\ UNCHANGED <<wsState, mon, clients, links, activeLinkIds, ext, toServer,
                       cli, clinks, loc, unavailable, codec,
                   authorizedClients, authFile, supervisor>>

\* serverOnError that has already put the key into the requester's bind set.
serverOnError_KeepsBind(c) ==
    LET k == netServers[c].key
        l == netServers[c].bindId
    IN  /\ netServers[c].state = "pending"
        /\ (k \in unavailable \/ Listening(k) # {})
        /\ netServers' = [netServers EXCEPT ![c].state = "failed"]
        /\ boundServers' = [boundServers EXCEPT ![c] = @ \cup {k}]
        /\ toClient' = [toClient EXCEPT ![c] = SrvSend(c, <<AckFrame(l, FALSE)>>)]
        /\ bindLog' = LogAck(bindLog, c, l, FALSE)
        /\ UNCHANGED <<wsState, mon, clients, links, activeServers,
                       activeLinkIds, ext, toServer, cli, clinks, loc, unavailable, codec,
                   authorizedClients, authFile, supervisor>>

\* server.on("error"): the endpoint cannot be listened on
serverOnError(c) ==
    LET k == netServers[c].key
        l == netServers[c].bindId
    IN  /\ netServers[c].state = "pending"
        /\ (k \in unavailable \/ Listening(k) # {})
        /\ netServers' = [netServers EXCEPT ![c].state = "failed"]
        /\ toClient' = [toClient EXCEPT ![c] = SrvSend(c, <<AckFrame(l, FALSE)>>)]
        /\ bindLog' = LogAck(bindLog, c, l, FALSE)
        /\ UNCHANGED <<wsState, mon, clients, links, boundServers, activeServers,
                       activeLinkIds, ext, toServer, cli, clinks, loc, unavailable, codec,
                   authorizedClients, authFile, supervisor>>

\* ------------------------------------------------ server: links
\* The ids drawn so far, and the ids a draw is taken from: the ids never
\* drawn are interchangeable, so the least of them stands for all of them.
DrawnIds == {ext[s].id : s \in {t \in Conns : ext[t].state # "none"}}
FreshIds == LinkIds \ DrawnIds
Draws == DrawnIds \cup {l \in FreshIds : \A m \in FreshIds : l <= m}

\* The ids generateUniqueLinkId can return (it also adds the id to the set):
\* a random id, drawn again while it is in activeLinkIds.
generateUniqueLinkId == Draws \ activeLinkIds

NewLink(s) == [socket |-> s, buffer |-> <<>>, confirmed |-> FALSE, bufferSize |-> 0]

\* createServer callback: a bound listener accepts external connection s.
\* client and ws are the ones captured when the listener was created.
acceptCallback(s, o) ==
    /\ ext[s].state = "none"
    /\ \A t \in Conns : t < s => ext[t].state # "none"
    /\ netServers[o].state = "listening"
    /\ \E newLinkId \in generateUniqueLinkId :
        /\ activeLinkIds' = activeLinkIds \cup {newLinkId}
        /\ links' = [links EXCEPT ![o] = MapSet(@, newLinkId, NewLink(s))]
        /\ toClient' = [toClient EXCEPT ![o] = SrvSend(o, <<OpenFrame(newLinkId, s)>>)]
        /\ ext' = [ext EXCEPT ![s] =
                     [NoExt EXCEPT !.state = "open", !.owner = o, !.id = newLinkId,
                        !.acceptOk =
                            /\ netServers[o].key \in DOMAIN activeServers
                            /\ o \in activeServers[netServers[o].key].clients
                            /\ wsState[o] = "open",
                        !.afterClose = (wsState[o] # "open")]]
    /\ UNCHANGED <<wsState, mon, clients, bindVars, toServer, clientVars, unavailable, codec,
                   authorizedClients, authFile, supervisor>>

\* How many chunks of buffer b were read from socket s.
CountFrom(b, s) == Cardinality({i \in 1..Len(b) : b[i].chunk.sock = s})

\* socket.on("data"), link not yet confirmed: buffer, close on overflow
bufferEarly(s, o, id, ck, n) ==
    LET link == links[o][id]
        size == link.bufferSize + n
    IN  IF size > MAX_BUFFER_SIZE
        THEN /\ ext' = [EndSocket(ext, s) EXCEPT ![s].nread = @ + 1,
                                                  ![link.socket].overflowed = TRUE]
             /\ links' = [links EXCEPT ![o] = MapDel(@, id)]
             /\ activeLinkIds' = activeLinkIds \ {id}
             /\ UNCHANGED toClient
        ELSE /\ ext' = [ext EXCEPT ![s].nread = @ + 1]
             /\ links' = [links EXCEPT ![o][id].buffer =
                                           Append(@, [chunk |-> ck, len |-> n]),
                                       ![o][id].bufferSize = size]
             /\ UNCHANGED <<activeLinkIds, toClient>>

\* socket.on("data"), link confirmed: forward
forwardData(s, o, id, ck, n) ==
    /\ toClient' = [toClient EXCEPT ![o] = SrvSend(o, <<DataFrame(id, ck, n)>>)]
    /\ ext' = [ext EXCEPT ![s].nread = @ + 1, ![s].nsent = @ + 1]
    /\ UNCHANGED <<links, activeLinkIds>>

\* socket.on("data") of external socket s delivering n bytes
socketOnData(s, n) ==
    LET o == ext[s].owner
        id == ext[s].id
        ck == [side |-> "e", sock |-> s, idx |-> ext[s].nread + 1]
    IN  \* end() closes the writing side only: the peer's bytes still arrive
        /\ ext[s].state \in {"open", "ended"}
        /\ IF id \in DOMAIN links[o]
           THEN IF ~links[o][id].confirmed
                THEN bufferEarly(s, o, id, ck, n)
                ELSE forwardData(s, o, id, ck, n)
           ELSE /\ ext' = [ext EXCEPT ![s].nread = @ + 1]
                /\ UNCHANGED <<links, activeLinkIds, toClient>>
        /\ UNCHANGED <<wsState, mon, clients, bindVars, toServer, clientVars, unavailable, codec,
                   authorizedClients, authFile, supervisor>>

\* The two deletes both socket handlers make.
dropLink(s) ==
    /\ links' = [links EXCEPT ![ext[s].owner] = MapDel(@, ext[s].id)]
    /\ activeLinkIds' = activeLinkIds \ {ext[s].id}

\* socket.on("close")
socketOnClose(s) ==
    /\ ext[s].state \in {"open", "ended"}
    /\ ext' = [ext EXCEPT ![s].state = "closed"]
    /\ dropLink(s)
    /\ UNCHANGED <<wsState, mon, clients, bindVars, toClient, toServer, clientVars,
                   unavailable, codec,
                   authorizedClients, authFile, supervisor>>

\* socket.on("error"), which "close" follows in the same tick
socketOnError(s) ==
    /\ ext[s].state \in {"open", "ended"}
    /\ ext' = [ext EXCEPT ![s].state = "closed"]
    /\ dropLink(s)
    /\ UNCHANGED <<wsState, mon, clients, bindVars, toClient, toServer, clientVars,
                   unavailable, codec,
                   authorizedClients, authFile, supervisor>>

\* ------------------------------------------------ server: frames
\* onLinkReady that takes an OPEN for a link already confirmed as a reopen
\* and starts the link over.
onLinkReady_Reopens(c, f) ==
    /\ IF f.linkId \in DOMAIN links[c]
       THEN /\ links' = [links EXCEPT ![c][f.linkId].confirmed = ~@]
            /\ UNCHANGED <<toClient, ext>>
       ELSE UNCHANGED <<links, toClient, ext>>
    /\ UNCHANGED <<activeLinkIds, bindVars>>

\* onLinkReady that drains and clears the buffer but leaves bufferSize.
onLinkReady_KeepsSize(c, f) ==
    /\ IF f.linkId \in DOMAIN links[c]
       THEN LET link == links[c][f.linkId]
                out == [i \in 1..Len(link.buffer) |->
                          DataFrame(f.linkId, link.buffer[i].chunk, link.buffer[i].len)]
            IN  /\ links' = [links EXCEPT ![c][f.linkId] =
                               [link EXCEPT !.confirmed = TRUE, !.buffer = <<>>]]
                /\ toClient' = [toClient EXCEPT ![c] = SrvSend(c, out)]
                /\ ext' = [s \in Conns |->
                             [ext[s] EXCEPT !.nsent = @ + CountFrom(link.buffer, s)]]
       ELSE UNCHANGED <<links, toClient, ext>>
    /\ UNCHANGED <<activeLinkIds, bindVars>>

\* handleControlData, type 0: the client's ack; drain the early buffer
onLinkReady(c, f) ==
    /\ IF f.linkId \in DOMAIN links[c]
       THEN LET link == links[c][f.linkId]
                out == [i \in 1..Len(link.buffer) |->
                          DataFrame(f.linkId, link.buffer[i].chunk, link.buffer[i].len)]
            IN  /\ links' = [links EXCEPT ![c][f.linkId] =
                               [link EXCEPT !.confirmed = TRUE, !.buffer = <<>>,
                                            !.bufferSize = 0]]
                /\ toClient' = [toClient EXCEPT ![c] = SrvSend(c, out)]
                /\ ext' = [s \in Conns |->
                             [ext[s] EXCEPT !.nsent = @ + CountFrom(link.buffer, s)]]
       ELSE UNCHANGED <<links, toClient, ext>>
    /\ UNCHANGED <<activeLinkIds, bindVars>>

\* closeLink that frees the id whether or not the channel has the link.
closeLink_FreesAnyway(st, c, l) ==
    IF l \in DOMAIN st.links[c]
    THEN [ext |-> EndSocket(st.ext, st.links[c][l].socket),
          links |-> [st.links EXCEPT ![c] = MapDel(@, l)],
          ids |-> st.ids \ {l}]
    ELSE [st EXCEPT !.ids = @ \ {l}]

\* The type 1 branch as a function of what it touches: the sockets, the
\* link maps and the live id set.
closeLink(st, c, l) ==
    IF l \in DOMAIN st.links[c]
    THEN [ext |-> EndSocket(st.ext, st.links[c][l].socket),
          links |-> [st.links EXCEPT ![c] = MapDel(@, l)],
          ids |-> st.ids \ {l}]
    ELSE st

\* handleControlData, type 1
onCloseLink(c, f) ==
    /\ LET after == closeLink([ext |-> ext, links |-> links, ids |-> activeLinkIds],
                              c, f.linkId)
       IN  /\ ext' = after.ext
           /\ links' = after.links
           /\ activeLinkIds' = after.ids
    /\ UNCHANGED <<toClient, bindVars>>

\* onStreamData that answers a DATA frame for an absent link with a CLOSE.
onStreamData_RepliesClose(c, f) ==
    /\ IF f.linkId \in DOMAIN links[c] /\ links[c][f.linkId].confirmed
       THEN LET s == links[c][f.linkId].socket
            IN  /\ ext' = IF ext[s].state = "open"
                          THEN [ext EXCEPT ![s].written = Append(@, f.chunk)]
                          ELSE ext
                /\ UNCHANGED toClient
       ELSE /\ toClient' = [toClient EXCEPT
                               ![c] = SrvSend(c, <<Frame(CLOSE, f.linkId)>>)]
            /\ UNCHANGED ext
    /\ UNCHANGED <<links, activeLinkIds, bindVars>>

\* handleControlData, type 2
onStreamData(c, f) ==
    /\ IF f.linkId \in DOMAIN links[c] /\ links[c][f.linkId].confirmed
       THEN LET s == links[c][f.linkId].socket
            IN  ext' = IF ext[s].state = "open"
                       THEN [ext EXCEPT ![s].written = Append(@, f.chunk)]
                       ELSE ext
       ELSE UNCHANGED ext
    /\ UNCHANGED <<links, activeLinkIds, toClient, bindVars>>

\* decodeMessage: readUInt32BE(0) and readUInt32BE(4) throw a RangeError
\* on a buffer of fewer than 8 bytes
decodeThrows(f) == f.wire < HEADER

\* content.readUInt16BE(0) of a BIND throws on a content of fewer than 2 bytes
bindThrows(f) == f.type = BIND /\ f.wire - HEADER < PORT_BYTES

\* An exception thrown out of an event handler: nothing catches it, the
\* server process dies, and with it its maps, listeners and sockets.
uncaughtException ==
    /\ wsState' = [b \in Chans |->
                     IF wsState[b] \in {"open", "terminated"} THEN "crashed"
                     ELSE wsState[b]]
    /\ clients' = {}
    /\ links' = [b \in Chans |-> EmptyMap]
    /\ boundServers' = [b \in Chans |-> {}]
    /\ activeServers' = EmptyMap
    /\ netServers' = [b \in Chans |->
                        IF netServers[b].state \in {"pending", "listening"}
                        THEN [netServers[b] EXCEPT !.state = "closed"]
                        ELSE netServers[b]]
    /\ activeLinkIds' = {}
    /\ ext' = [s \in Conns |->
                 IF ext[s].state \in {"open", "ended"}
                 THEN [ext[s] EXCEPT !.state = "closed"] ELSE ext[s]]
    /\ toClient' = [b \in Chans |-> <<>>]
    /\ toServer' = [b \in Chans |-> <<>>]
    /\ mon' = [b \in Chans |->
                 [NoMon EXCEPT !.age = mon[b].age, !.hole = mon[b].hole]]
    /\ UNCHANGED bindLog

\* handleControlData, the frame decoded
dispatch(c, f) ==
    CASE f.type = BIND -> onBind(c, f)
      [] f.type = OPEN -> onLinkReady(c, f)
      [] f.type = CLOSE -> onCloseLink(c, f)
      [] f.type = DATA -> onStreamData(c, f)
      [] OTHER -> UNCHANGED <<links, activeLinkIds, ext, toClient, bindVars>>

\* ws.on("message") on the server
handleControlData(c) ==
    /\ wsState[c] = "open"
    /\ toServer[c] # <<>>
    /\ LET f == Head(toServer[c])
       IN  IF c \in clients /\ (decodeThrows(f) \/ bindThrows(f))
           THEN uncaughtException
           ELSE /\ toServer' = [toServer EXCEPT ![c] = Tail(@)]
                /\ IF c \notin clients
                   THEN UNCHANGED <<links, activeLinkIds, ext, toClient, bindVars>>
                   ELSE dispatch(c, f)
                /\ UNCHANGED <<wsState, mon, clients>>
    /\ UNCHANGED <<clientVars, unavailable, codec,
                   authorizedClients, authFile, supervisor>>

\* leaveBinds that leaves every entry but never closes an emptied listener.
leaveBinds_KeepListener(c, keys, st) ==
    [st EXCEPT !.servers =
        [k \in DOMAIN st.servers |->
            IF k \in keys THEN [st.servers[k] EXCEPT !.clients = @ \ {c}]
            ELSE st.servers[k]]]

\* ws.on("close"), the bind part: leave every entry, close emptied listeners
RECURSIVE leaveBinds(_, _, _)
leaveBinds(c, keys, st) ==
    IF keys = {} THEN st
    ELSE LET k == CHOOSE x \in keys : TRUE
             rest == keys \ {k}
         IN  IF k \notin DOMAIN st.servers THEN leaveBinds(c, rest, st)
             ELSE LET left == st.servers[k].clients \ {c}
                  IN  IF left = {}
                      THEN leaveBinds(c, rest,
                             [servers |-> MapDel(st.servers, k),
                              net |-> [st.net EXCEPT ![st.servers[k].server].state = "closed"]])
                      ELSE leaveBinds(c, rest,
                             [st EXCEPT !.servers = [st.servers EXCEPT ![k].clients = left]])

\* endAllLinks that frees the ids but leaves the sockets as they are.
endAllLinks_FreesOnly(c) ==
    /\ activeLinkIds' = activeLinkIds \ DOMAIN links[c]
    /\ UNCHANGED ext

\* ws.on("close"), the link part: end every socket, free every id
endAllLinks(c) ==
    /\ ext' = [s \in Conns |->
                 IF \E l \in DOMAIN links[c] : links[c][l].socket = s
                 THEN EndSocket(ext, s)[s] ELSE ext[s]]
    /\ activeLinkIds' = activeLinkIds \ DOMAIN links[c]

\* ws.on("close") on the server
wsOnClose(c) ==
    /\ wsState[c] \in {"open", "terminated"}
    /\ wsState' = [wsState EXCEPT ![c] = "closed"]
    \* clearTimeout(client.pingTimeout); pings and pongs in flight are lost
    /\ mon' = [mon EXCEPT ![c].armed = FALSE, ![c].pings = 0, ![c].pongs = 0]
    /\ LET st == leaveBinds(c, boundServers[c],
                            [servers |-> activeServers, net |-> netServers])
       IN  /\ activeServers' = st.servers
           /\ netServers' = st.net
    /\ endAllLinks(c)
    /\ clients' = clients \ {c}
    \* the closed socket delivers no frame any more, in either direction
    /\ toServer' = [toServer EXCEPT ![c] = <<>>]
    /\ toClient' = [toClient EXCEPT ![c] = <<>>]
    /\ UNCHANGED <<links, boundServers, clientVars, unavailable, codec,
                   authorizedClients, authFile, supervisor, bindLog>>

\* ------------------------------------------------ client
\* process.exit(code): every local socket of the process dies with it.
\* "exited" is a process that ended with status 1, "exited0" with status 0.
exitProcess(c, code) ==
    /\ cli' = [cli EXCEPT ![c] = IF code = 1 THEN "exited" ELSE "exited0"]
    /\ loc' = [d \in Conns |->
                 IF loc[d].chan = c /\ loc[d].state \in {"connecting", "open"}
                 THEN [loc[d] EXCEPT !.state = "closed"] ELSE loc[d]]
    /\ toClient' = [toClient EXCEPT ![c] = <<>>]

\* closeAllLocalConnections that ends the sockets and clears the map but
\* returns to the event loop instead of ending the process.
closeAllLocalConnections_Returns(c) ==
    /\ clinks' = [clinks EXCEPT ![c] = EmptyMap]
    /\ loc' = [d \in Conns |->
                 IF \E l \in DOMAIN clinks[c] : clinks[c][l] = d
                 THEN [loc[d] EXCEPT !.state = "closed"] ELSE loc[d]]
    /\ UNCHANGED <<cli, toClient>>

\* closeAllLocalConnections: end and forget every local socket, then
\* process.exit(1)
closeAllLocalConnections(c) ==
    /\ clinks' = [clinks EXCEPT ![c] = EmptyMap]
    /\ exitProcess(c, 1)

\* The link ids bindServer's random draw is taken from.  The server only
\* echoes the id, so what matters is which clients drew equal ids: the c-th
\* client draws among the first c ids.
BindIds(c) == {l \in LinkIds : l < c}

\* connectToServer on("open") and bindServer: send the one BIND
bindServer(c, l, k) ==
    /\ cli[c] = "connecting"
    /\ wsState[c] # "none"
    /\ cli' = [cli EXCEPT ![c] = "wait_ack"]
    /\ toServer' = [toServer EXCEPT ![c] = CliSend(c, <<BindFrame(l, k)>>)]
    /\ UNCHANGED <<wsState, mon, clients, links, bindVars, activeLinkIds, ext,
                   toClient, clinks, loc, unavailable, codec,
                   authorizedClients, authFile, supervisor>>

\* createLocalConnection: dial, and register the socket at once
createLocalConnection(c, f) ==
    /\ loc' = [loc EXCEPT ![f.src] =
                 [NoLoc EXCEPT !.state = "connecting", !.chan = c, !.id = f.linkId]]
    /\ clinks' = [clinks EXCEPT ![c] = MapSet(@, f.linkId, f.src)]

\* handleServerData, type 2: write to the registered local socket
writeLocal(c, f) ==
    /\ loc' = IF f.linkId \in DOMAIN clinks[c]
                 /\ loc[clinks[c][f.linkId]].state \in {"connecting", "open"}
              THEN [loc EXCEPT ![clinks[c][f.linkId]].written = Append(@, f.chunk)]
              ELSE loc
    /\ UNCHANGED clinks

\* handleServerData
handleServerData(c, f) ==
    CASE f.type = OPEN -> createLocalConnection(c, f)
      [] f.type = DATA -> writeLocal(c, f)
      [] OTHER -> UNCHANGED <<clinks, loc>>

\* ws.on("message") on the client: handleServerData, and while the bind
\* promise is pending handleBindResponse, whose failure exits the process
clientOnMessage(c) ==
    /\ cli[c] \in {"wait_ack", "bound"}
    /\ toClient[c] # <<>>
    /\ LET f == Head(toClient[c])
       IN  IF cli[c] = "wait_ack" /\ f.type = BIND_ACK
           THEN IF f.success
                THEN /\ cli' = [cli EXCEPT ![c] = "bound"]
                     /\ toClient' = [toClient EXCEPT ![c] = Tail(@)]
                     /\ UNCHANGED <<clinks, loc>>
                ELSE /\ exitProcess(c, 1)
                     /\ UNCHANGED clinks
           ELSE /\ handleServerData(c, f)
                /\ toClient' = [toClient EXCEPT ![c] = Tail(@)]
                /\ UNCHANGED cli
    /\ UNCHANGED <<wsState, mon, clients, links, bindVars, activeLinkIds, ext,
                   toServer, unavailable, codec,
                   authorizedClients, authFile, supervisor>>

\* ws.on("close") / ws.on("error") on the client
clientOnClose(c) ==
    /\ cli[c] \in {"connecting", "wait_ack", "bound"}
    /\ wsState[c] # "none"
    /\ closeAllLocalConnections(c)
    /\ UNCHANGED <<wsState, mon, clients, links, bindVars, activeLinkIds, ext,
                   toServer, unavailable, codec,
                   authorizedClients, authFile, supervisor>>

\* createConnection callback: the dial succeeded, send the ack
localOnConnect(d) ==
    /\ loc[d].state = "connecting"
    /\ loc' = [loc EXCEPT ![d].state = "open", ![d].connected = TRUE,
                          ![d].nAck = @ + 1]
    /\ toServer' = [toServer EXCEPT ![loc[d].chan] =
                      CliSend(loc[d].chan, <<Frame(OPEN, loc[d].id)>>)]
    /\ UNCHANGED <<wsState, mon, clients, links, bindVars, activeLinkIds, ext,
                   toClient, cli, clinks, unavailable, codec,
                   authorizedClients, authFile, supervisor>>

\* localSocket.on("data")
localOnData(d) ==
    /\ loc[d].state = "open"
    /\ loc' = [loc EXCEPT ![d].nread = @ + 1]
    /\ toServer' = [toServer EXCEPT ![loc[d].chan] =
                      CliSend(loc[d].chan,
                              <<DataFrame(loc[d].id,
                                  [side |-> "l", sock |-> d, idx |-> loc[d].nread + 1], 1)>>)]
    /\ UNCHANGED <<wsState, mon, clients, links, bindVars, activeLinkIds, ext,
                   toClient, cli, clinks, unavailable, codec,
                   authorizedClients, authFile, supervisor>>

\* localSocket.on("close")
localOnClose(d) ==
    /\ loc[d].state = "open"
    /\ loc' = [loc EXCEPT ![d].state = "closed", ![d].nClose = @ + 1]
    /\ clinks' = [clinks EXCEPT ![loc[d].chan] = MapDel(@, loc[d].id)]
    /\ toServer' = [toServer EXCEPT ![loc[d].chan] =
                      CliSend(loc[d].chan, <<Frame(CLOSE, loc[d].id)>>)]
    /\ UNCHANGED <<wsState, mon, clients, links, bindVars, activeLinkIds, ext,
                   toClient, cli, unavailable, codec,
                   authorizedClients, authFile, supervisor>>

\* localSocket.on("error"), which "close" follows in the same tick: each
\* handler deletes the entry and sends a CLOSE
localOnError(d) ==
    /\ loc[d].state \in {"connecting", "open"}
    /\ loc' = [loc EXCEPT ![d].state = "closed", ![d].nClose = @ + 2]
    /\ clinks' = [clinks EXCEPT ![loc[d].chan] = MapDel(@, loc[d].id)]
    /\ toServer' = [toServer EXCEPT ![loc[d].chan] =
                      CliSend(loc[d].chan,
                              <<Frame(CLOSE, loc[d].id), Frame(CLOSE, loc[d].id)>>)]
    /\ UNCHANGED <<wsState, mon, clients, links, bindVars, activeLinkIds, ext,
                   toClient, cli, unavailable, codec,
                   authorizedClients, authFile, supervisor>>

\* ------------------------------------------------------------------ Next
\* Room left for one more socket, external read or local read.
SocketsLeft == Sockets < MaxSockets
ExtReadsLeft == ExtReads < MaxExtReads /\ ExtReads + LocReads < MaxReads
LocReadsLeft == LocReads < MaxLocReads /\ ExtReads + LocReads < MaxReads

Next ==
    \/ \E c \in Chans, cert \in Certs : SocketsLeft /\ onConnection(c, cert)
    \/ \E c \in Chans : handleControlData(c)
    \/ \E c \in Chans : listenCallback(c)
    \/ \E c \in Chans : serverOnError(c)
    \/ \E s \in Conns, o \in Chans : SocketsLeft /\ acceptCallback(s, o)
    \/ \E s \in Conns, n \in ChunkLens : ExtReadsLeft /\ socketOnData(s, n)
    \/ \E s \in Conns : socketOnClose(s)
    \/ \E s \in Conns : socketOnError(s)
    \/ \E c \in Chans : wsOnClose(c)
    \/ \E c \in Chans : \E l \in BindIds(c), k \in Keys : bindServer(c, l, k)
    \/ \E c \in Chans : clientOnMessage(c)
    \/ \E c \in Chans : clientOnClose(c)
    \/ \E d \in Conns : localOnConnect(d)
    \/ \E d \in Conns : LocReadsLeft /\ localOnData(d)
    \/ \E d \in Conns : localOnClose(d)
    \/ \E d \in Conns : localOnError(d)

Spec == Init /\ [][Next]_vars

\* ------------------------------------------------ server: liveness monitor
\* pingTick that pings without marking the channel not-alive.
pingTick_NeverMarks ==
    /\ \A c \in Chans : wsState[c] # "crashed"
    /\ clients # {}
    /\ wsState' = [c \in Chans |->
                     IF c \in clients /\ wsState[c] = "open" /\ ~mon[c].isAlive
                     THEN "terminated" ELSE wsState[c]]
    /\ mon' = [c \in Chans |->
                 LET m == IF mon[c].armed /\ mon[c].idle < TimeoutTicks
                          THEN [mon[c] EXCEPT !.idle = @ + 1] ELSE mon[c]
                 IN  IF c \in clients /\ wsState[c] = "open" /\ mon[c].isAlive
                     THEN [m EXCEPT !.pings = @ + 1]
                     ELSE m]
    /\ UNCHANGED <<clients, links, bindVars, activeLinkIds, ext, toClient,
                   toServer, clientVars, unavailable, codec,
                   authorizedClients, authFile, supervisor>>

\* The setInterval callback, every PING_INTERVAL ms: each registered channel
\* whose socket is OPEN is terminated if it is not alive, else marked not
\* alive and pinged.  One more interval has passed on every armed timeout.
\* (With no client registered the callback has nothing to do.)
pingTick ==
    /\ \A c \in Chans : wsState[c] # "crashed"
    /\ clients # {}
    /\ wsState' = [c \in Chans |->
                     IF c \in clients /\ wsState[c] = "open" /\ ~mon[c].isAlive
                     THEN "terminated" ELSE wsState[c]]
    /\ mon' = [c \in Chans |->
                 LET m == IF mon[c].armed /\ mon[c].idle < TimeoutTicks
                          THEN [mon[c] EXCEPT !.idle = @ + 1] ELSE mon[c]
                 IN  IF c \in clients /\ wsState[c] = "open" /\ mon[c].isAlive
                     THEN [m EXCEPT !.isAlive = FALSE, !.pings = @ + 1]
                     ELSE m]
    /\ UNCHANGED <<clients, links, bindVars, activeLinkIds, ext, toClient,
                   toServer, clientVars, unavailable, codec,
                   authorizedClients, authFile, supervisor>>

\* ws.on("pong") on the server: heartbeat(ws)
onPong(c) ==
    /\ wsState[c] = "open"
    /\ mon[c].pongs > 0
    /\ mon' = heartbeat([mon EXCEPT ![c].pongs = @ - 1, ![c].answered = @ + 1], c)
    /\ UNCHANGED <<wsState, clients, links, bindVars, activeLinkIds, ext,
                   toClient, toServer, clientVars, unavailable, codec,
                   authorizedClients, authFile, supervisor>>

\* The pingTimeout callback: PING_TIMEOUT ms after the last heartbeat
pingTimeout(c) ==
    /\ mon[c].armed
    /\ mon[c].idle >= TimeoutTicks
    /\ mon' = [mon EXCEPT ![c].armed = FALSE]
    /\ wsState' = [wsState EXCEPT ![c] = IF @ = "open" THEN "terminated" ELSE @]
    /\ UNCHANGED <<clients, links, bindVars, activeLinkIds, ext, toClient,
                   toServer, clientVars, unavailable, codec,
                   authorizedClients, authFile, supervisor>>

\* on("ping") on the client: controlSocket.pong(), lastPingTime = now
clientOnPing(c) ==
    /\ cli[c] \in {"connecting", "wait_ack", "bound"}
    /\ wsState[c] = "open"
    /\ mon[c].pings > 0
    /\ mon' = [mon EXCEPT ![c].pings = @ - 1, ![c].pongs = @ + 1, ![c].age = 0]
    /\ UNCHANGED <<wsState, clients, links, bindVars, activeLinkIds, ext,
                   toClient, toServer, clientVars, unavailable, codec,
                   authorizedClients, authFile, supervisor>>

\* Pongs the server takes from one channel.
MaxPongs == 2

\* The control connections alone, under the monitor.
NextPing ==
    \/ \E c \in Chans, cert \in Certs : SocketsLeft /\ onConnection(c, cert)
    \/ pingTick
    \/ \E c \in Chans : clientOnPing(c)
    \/ \E c \in Chans : mon[c].answered < MaxPongs /\ onPong(c)
    \/ \E c \in Chans : pingTimeout(c)
    \/ \E c \in Chans : wsOnClose(c)
    \/ \E c \in Chans : clientOnClose(c)

SpecPing == Init /\ [][NextPing]_vars

\* ------------------------------------------------- link ids under churn
\* The same handlers without the "data" events, with room for one socket
\* more: two control channels and two external connections at once.
MaxLinkSockets == 4

NextLinks ==
    \/ \E c \in Chans, cert \in Certs :
          Sockets < MaxLinkSockets /\ onConnection(c, cert)
    \/ \E c \in Chans : handleControlData(c)
    \/ \E c \in Chans : listenCallback(c)
    \/ \E c \in Chans : serverOnError(c)
    \/ \E s \in Conns, o \in Chans :
          Sockets < MaxLinkSockets /\ acceptCallback(s, o)
    \/ \E s \in Conns : socketOnClose(s)
    \/ \E s \in Conns : socketOnError(s)
    \/ \E c \in Chans : wsOnClose(c)
    \/ \E c \in Chans : \E l \in BindIds(c), k \in Keys : bindServer(c, l, k)
    \/ \E c \in Chans : clientOnMessage(c)
    \/ \E c \in Chans : clientOnClose(c)
    \/ \E d \in Conns : localOnConnect(d)
    \/ \E d \in Conns : localOnClose(d)
    \/ \E d \in Conns : localOnError(d)

SpecLinks == Init /\ [][NextLinks]_vars

\* --------------------------------------------- what a peer can put on the wire
\* The types no branch of either side names.
UnknownTypes == {3}

\* Messages an admitted peer can send to the server besides the client's
\* own: one of 7 bytes, a BIND with one byte of content, a frame of unknown
\* type and a BIND_ACK.
PeerFrames ==
    {[Frame(OPEN, 0) EXCEPT !.wire = HEADER - 1]}
    \cup {[BindFrame(0, k) EXCEPT !.wire = HEADER + PORT_BYTES - 1] : k \in Keys}
    \cup {Frame(t, 0) : t \in UnknownTypes \cup {BIND_ACK}}

\* Frames the protocol lets a server send that this server never does, and
\* a frame of unknown type.
ServerFrames ==
    {Frame(CLOSE, l) : l \in LinkIds} \cup {Frame(t, 0) : t \in UnknownTypes}

\* The peer on channel c sends message f to the server.
peerSends(c, f) ==
    /\ wsState[c] = "open"
    /\ cli[c] # "exited"
    /\ toServer' = [toServer EXCEPT ![c] = Append(@, f)]
    /\ UNCHANGED <<wsState, mon, clients, links, bindVars, activeLinkIds, ext,
                   toClient, clientVars, unavailable, codec,
                   authorizedClients, authFile, supervisor>>

\* The server end of channel c sends frame f to the client.
serverSends(c, f) ==
    /\ wsState[c] = "open"
    /\ cli[c] \in {"wait_ack", "bound"}
    /\ toClient' = [toClient EXCEPT ![c] = Append(@, f)]
    /\ UNCHANGED <<wsState, mon, clients, links, bindVars, activeLinkIds, ext,
                   toServer, clientVars, unavailable, codec,
                   authorizedClients, authFile, supervisor>>

\* The handlers without the "data" events, and a peer that sends such a
\* frame whenever nothing else is in flight in that direction.
NextWire ==
    \/ \E c \in Chans, cert \in Certs : SocketsLeft /\ onConnection(c, cert)
    \/ \E c \in Chans : handleControlData(c)
    \/ \E c \in Chans : listenCallback(c)
    \/ \E c \in Chans : serverOnError(c)
    \/ \E s \in Conns, o \in Chans : SocketsLeft /\ acceptCallback(s, o)
    \/ \E s \in Conns : socketOnClose(s)
    \/ \E s \in Conns : socketOnError(s)
    \/ \E c \in Chans : wsOnClose(c)
    \/ \E c \in Chans : \E l \in BindIds(c), k \in Keys : bindServer(c, l, k)
    \/ \E c \in Chans : clientOnMessage(c)
    \/ \E c \in Chans : clientOnClose(c)
    \/ \E d \in Conns : localOnConnect(d)
    \/ \E d \in Conns : localOnClose(d)
    \/ \E d \in Conns : localOnError(d)
    \/ \E c \in Chans, f \in PeerFrames :
          toServer[c] = <<>> /\ peerSends(c, f)
    \/ \E c \in Chans, f \in ServerFrames :
          toClient[c] = <<>> /\ serverSends(c, f)

SpecWire == Init /\ [][NextWire]_vars

\* ------------------------------------------------- the silent path
\* The client's setInterval callback: closeAllLocalConnections once more
\* than LAST_PING_LIMIT ms have passed since lastPingTime.  Time is counted
\* in ping intervals: the step is the callback that finds one more interval
\* gone, and the first one after the limit is reached exits.
clientInterval(c) ==
    /\ cli[c] \in {"connecting", "wait_ack", "bound"}
    /\ IF mon[c].age >= LimitTicks
       THEN /\ closeAllLocalConnections(c)
            /\ UNCHANGED mon
       ELSE /\ mon' = [mon EXCEPT ![c].age = @ + 1]
            /\ UNCHANGED <<clientVars, toClient>>
    /\ UNCHANGED <<wsState, clients, links, bindVars, activeLinkIds, ext,
                   toServer, unavailable, codec,
                   authorizedClients, authFile, supervisor>>

\* The path of channel c goes silent: from now on it carries no ping and
\* no pong, in either direction.
blackHole(c) ==
    /\ wsState[c] = "open"
    /\ c \in clients
    /\ cli[c] \in {"connecting", "wait_ack", "bound"}
    /\ ~mon[c].hole
    /\ mon' = [mon EXCEPT ![c].hole = TRUE]
    /\ UNCHANGED <<wsState, clients, links, bindVars, activeLinkIds, ext,
                   toClient, toServer, clientVars, unavailable, codec,
                   authorizedClients, authFile, supervisor>>

\* Control connections, and control and external connections together, of
\* this specification.
MaxHoleChans == 1
MaxHoleSockets == 2

HoleChansLeft == Cardinality({c \in Chans : wsState[c] # "none"}) < MaxHoleChans

\* The tunnel without "data" events, under the monitor and the client's
\* timer, on paths that can go silent.  The client's clock is followed from
\* the moment its path goes silent.
NextHole ==
    \/ \E c \in Chans, cert \in Certs : HoleChansLeft /\ onConnection(c, cert)
    \/ \E c \in Chans : handleControlData(c)
    \/ \E c \in Chans : listenCallback(c)
    \/ \E c \in Chans : serverOnError(c)
    \/ \E s \in Conns, o \in Chans :
          Sockets < MaxHoleSockets /\ acceptCallback(s, o)
    \/ \E s \in Conns : socketOnClose(s)
    \/ \E c \in Chans : wsOnClose(c)
    \/ \E c \in Chans : \E l \in BindIds(c), k \in Keys : bindServer(c, l, k)
    \/ \E c \in Chans : clientOnMessage(c)
    \/ \E c \in Chans : clientOnClose(c)
    \/ \E d \in Conns : localOnConnect(d)
    \/ \E d \in Conns : localOnClose(d)
    \/ pingTick
    \/ \E c \in Chans : ~mon[c].hole /\ clientOnPing(c)
    \/ \E c \in Chans : ~mon[c].hole /\ mon[c].answered < MaxPongs /\ onPong(c)
    \/ \E c \in Chans : pingTimeout(c)
    \/ \E c \in Chans : mon[c].hole /\ clientInterval(c)
    \/ \E c \in Chans : blackHole(c)

\* Timers fire and a terminated socket emits "close"; nothing obliges the
\* path to deliver.
FairHole ==
    /\ WF_vars(pingTick)
    /\ \A c \in Chans :
          /\ WF_vars(pingTimeout(c))
          /\ WF_vars(wsState[c] = "terminated" /\ wsOnClose(c))
          /\ WF_vars(mon[c].hole /\ clientInterval(c))

SpecHole == Init /\ [][NextHole]_vars /\ FairHole

\* ------------------------------------------------------- the allow-list
\* Array.prototype.splice(start, deleteCount, ...items)
splice(a, start, deleteCount, items) ==
    SubSeq(a, 1, start) \o items \o SubSeq(a, start + deleteCount + 1, Len(a))

\* loadAuthorizedClients that pushes the lines read onto the array.
loadAuthorizedClients_Appends ==
    IF authFile.readable
    THEN /\ authorizedClients' = authorizedClients \o nonBlank(authFile.lines)
         /\ authFile' = [authFile EXCEPT !.changed = FALSE, !.last = "loaded",
                                         !.loaded = authFile.lines]
    ELSE /\ UNCHANGED authorizedClients
         /\ authFile' = [authFile EXCEPT !.changed = FALSE, !.last = "failed"]

\* loadAuthorizedClients: read the file and replace the array's content by
\* its non-blank lines; a read that throws is logged and changes nothing.
loadAuthorizedClients ==
    IF authFile.readable
    THEN /\ authorizedClients' =
              splice(authorizedClients, 0, Len(authorizedClients),
                     nonBlank(authFile.lines))
         /\ authFile' = [authFile EXCEPT !.changed = FALSE, !.last = "loaded",
                                         !.loaded = authFile.lines]
    ELSE /\ UNCHANGED authorizedClients
         /\ authFile' = [authFile EXCEPT !.changed = FALSE, !.last = "failed"]

allowExcluded == <<wsState, clients, links, boundServers, activeServers,
                   netServers, activeLinkIds, ext, toClient, toServer, cli,
                   clinks, loc, unavailable, bindLog, mon, codec, supervisor>>

\* fs.watch callback for a "change" event: reload the list.
fsWatchCallback ==
    /\ authFile.changed
    /\ \A c \in Chans : wsState[c] # "crashed"
    /\ loadAuthorizedClients
    /\ UNCHANGED allowExcluded

\* The operator rewrites the file, or makes it unreadable: fs.watch reports
\* a "change".
FileLines == {<<>>, <<"listed">>, <<"other", "", "listed">>, <<" ", "other">>}
fileChanged(ok, lines) ==
    /\ <<ok, lines>> # <<authFile.readable, authFile.lines>>
    /\ authFile' = [authFile EXCEPT !.readable = ok, !.lines = lines,
                                    !.changed = TRUE]
    /\ UNCHANGED authorizedClients
    /\ UNCHANGED allowExcluded

\* The server starts with whatever the file holds: the initial load leaves
\* the array empty when the file cannot be read.
InitAllow ==
    /\ wsState = [c \in Chans |-> "none"]
    /\ clients = {}
    /\ links = [c \in Chans |-> EmptyMap]
    /\ boundServers = [c \in Chans |-> {}]
    /\ activeServers = EmptyMap
    /\ netServers = [c \in Chans |-> NoServer]
    /\ activeLinkIds = {}
    /\ ext = [s \in Conns |-> NoExt]
    /\ toClient = [c \in Chans |-> <<>>]
    /\ toServer = [c \in Chans |-> <<>>]
    /\ cli = [c \in Chans |-> "connecting"]
    /\ clinks = [c \in Chans |-> EmptyMap]
    /\ loc = [s \in Conns |-> NoLoc]
    /\ unavailable = {}
    /\ bindLog = [c \in Chans |-> [req |-> <<>>, acks |-> <<>>]]
    /\ mon = [c \in Chans |-> NoMon]
    /\ codec = NoCodec
    /\ supervisor = NoSupervisor
    /\ \E ok \in BOOLEAN, lines \in FileLines :
          /\ authFile = [NewFile(ok, lines) EXCEPT
                            !.last = IF ok THEN "loaded" ELSE "failed",
                            !.loaded = IF ok THEN lines ELSE <<>>]
          /\ authorizedClients = IF ok THEN nonBlank(lines) ELSE <<>>

MaxAllowSockets == 2
AllowSocketsLeft == Sockets < MaxAllowSockets

NextAllow ==
    \/ \E ok \in BOOLEAN, lines \in FileLines : fileChanged(ok, lines)
    \/ fsWatchCallback
    \/ \E c \in Chans, cert \in Certs : AllowSocketsLeft /\ onConnection(c, cert)
    \/ \E c \in Chans : handleControlData(c)
    \/ \E c \in Chans : listenCallback(c)
    \/ \E s \in Conns, o \in Chans : AllowSocketsLeft /\ acceptCallback(s, o)
    \/ \E c \in Chans : wsOnClose(c)
    \/ \E c \in Chans : \E l \in BindIds(c), k \in Keys : bindServer(c, l, k)
    \/ \E c \in Chans : clientOnMessage(c)

SpecAllow == InitAllow /\ [][NextAllow]_vars

\* ------------------------------------------------------- the supervisor
\* What $? holds after the client process of run c has ended: the client's
\* own process.exit(1), a status of 0, or 128 + 9 after a SIGKILL.
ExitStatus(c) ==
    CASE cli[c] = "exited" -> 1
      [] cli[c] = "exited0" -> 0
      [] OTHER -> 137

\* The client process of run c has been started by the loop.
Started(c) == supervisor.pc # "none" /\ c <= supervisor.run

supervisorExcluded == <<wsState, clients, links, boundServers, activeServers,
                        netServers, activeLinkIds, ext, toClient, toServer, cli,
                        clinks, loc, unavailable, bindLog, mon, codec,
                        authorizedClients, authFile>>

\* "$command" "$@": the loop starts the command, at first and after each
\* pause.
supervisorRun ==
    /\ supervisor.pc = "start"
    /\ supervisor.run < NumChans
    /\ supervisor' = [supervisor EXCEPT !.pc = "wait", !.run = @ + 1]
    /\ UNCHANGED supervisorExcluded

\* The loop's test that stops on every status but 0.
supervisorWait_BreaksOnFailure ==
    /\ supervisor.pc = "wait"
    /\ cli[supervisor.run] \in {"exited", "exited0", "killed"}
    /\ supervisor' = [supervisor EXCEPT
                         !.exit_code = ExitStatus(supervisor.run),
                         !.slept = 0,
                         !.pc = IF ExitStatus(supervisor.run) # 0
                                THEN "done" ELSE "sleep"]
    /\ UNCHANGED supervisorExcluded

\* exit_code=$?; if [ $exit_code -ne 1 ]; then break; fi
supervisorWait ==
    /\ supervisor.pc = "wait"
    /\ cli[supervisor.run] \in {"exited", "exited0", "killed"}
    /\ supervisor' = [supervisor EXCEPT
                         !.exit_code = ExitStatus(supervisor.run),
                         !.slept = 0,
                         !.pc = IF ExitStatus(supervisor.run) # 1
                                THEN "done" ELSE "sleep"]
    /\ UNCHANGED supervisorExcluded

\* sleep 5, second by second, then the next turn of the loop
SLEEP_SECONDS == 5
supervisorSleep ==
    /\ supervisor.pc = "sleep"
    /\ supervisor' = IF supervisor.slept < SLEEP_SECONDS
                     THEN [supervisor EXCEPT !.slept = @ + 1]
                     ELSE [supervisor EXCEPT !.pc = "start"]
    /\ UNCHANGED supervisorExcluded

\* The client process is killed from outside (SIGKILL): it runs no handler,
\* its sockets die with it.
clientKilled(c) ==
    /\ cli[c] \in {"connecting", "wait_ack", "bound"}
    /\ cli' = [cli EXCEPT ![c] = "killed"]
    /\ loc' = [d \in Conns |->
                 IF loc[d].chan = c /\ loc[d].state \in {"connecting", "open"}
                 THEN [loc[d] EXCEPT !.state = "closed"] ELSE loc[d]]
    /\ toClient' = [toClient EXCEPT ![c] = <<>>]
    /\ UNCHANGED <<wsState, mon, clients, links, bindVars, activeLinkIds, ext,
                   toServer, clinks, unavailable, codec,
                   authorizedClients, authFile, supervisor>>

\* The loop is given the client as its command.
InitSupervised ==
    /\ wsState = [c \in Chans |-> "none"]
    /\ clients = {}
    /\ links = [c \in Chans |-> EmptyMap]
    /\ boundServers = [c \in Chans |-> {}]
    /\ activeServers = EmptyMap
    /\ netServers = [c \in Chans |-> NoServer]
    /\ activeLinkIds = {}
    /\ ext = [s \in Conns |-> NoExt]
    /\ toClient = [c \in Chans |-> <<>>]
    /\ toServer = [c \in Chans |-> <<>>]
    /\ cli = [c \in Chans |-> "connecting"]
    /\ clinks = [c \in Chans |-> EmptyMap]
    /\ loc = [s \in Conns |-> NoLoc]
    /\ unavailable \in SUBSET Keys
    /\ bindLog = [c \in Chans |-> [req |-> <<>>, acks |-> <<>>]]
    /\ mon = [c \in Chans |-> NoMon]
    /\ codec = NoCodec
    /\ authFile = ListedFile
    /\ authorizedClients = nonBlank(ListedFile.lines)
    /\ supervisor = [NoSupervisor EXCEPT !.pc = "start"]

\* The supervised client: the loop, the client's handlers and timer, and
\* the server's handlers of its control connection.
NextSupervised ==
    \/ supervisorRun
    \/ supervisorWait
    \/ supervisorSleep
    \/ \E c \in Chans : Started(c) /\ clientKilled(c)
    \/ \E c \in Chans, cert \in Certs : Started(c) /\ onConnection(c, cert)
    \/ \E c \in Chans : handleControlData(c)
    \/ \E c \in Chans : listenCallback(c)
    \/ \E c \in Chans : serverOnError(c)
    \/ \E c \in Chans : wsOnClose(c)
    \/ \E c \in Chans : \E l \in BindIds(c), k \in Keys :
          Started(c) /\ bindServer(c, l, k)
    \/ \E c \in Chans : Started(c) /\ clientOnMessage(c)
    \/ \E c \in Chans : Started(c) /\ clientOnClose(c)
    \/ \E c \in Chans : Started(c) /\ mon[c].hole /\ clientInterval(c)
    \/ \E c \in Chans : Started(c) /\ blackHole(c)

\* The shell runs the loop on: a command that has ended is noticed, a sleep
\* ends, the next command is started.
FairSupervised ==
    /\ WF_vars(supervisorRun)
    /\ WF_vars(supervisorWait)
    /\ WF_vars(supervisorSleep)

SpecSupervised == InitSupervised /\ [][NextSupervised]_vars /\ FairSupervised

\* ------------------------------------------------------------- the codec
\* A 32-bit unsigned value is kept as <<hi, lo>>, its two 16-bit halves; a
\* buffer is a sequence of bytes.
\* buf.writeUInt32BE(v, 0) on a 4-byte buffer: most significant byte first
writeUInt32BE(v) == <<v[1] \div 256, v[1] % 256, v[2] \div 256, v[2] % 256>>

\* buf.readUInt32BE(off)
readUInt32BE(buf, off) ==
    <<buf[off + 1] * 256 + buf[off + 2], buf[off + 3] * 256 + buf[off + 4]>>

\* buf.subarray(n): the bytes from offset n on
subarray(buf, n) == SubSeq(buf, n + 1, Len(buf))

\* encodeMessage of the server: Buffer.concat([typeBuffer, linkIdBuffer, content])
encodeMessage(type, linkId, content) ==
    writeUInt32BE(type) \o writeUInt32BE(linkId) \o content

\* decodeMessage that reads the two words least significant byte first.
decodeMessage_LittleEndian(buffer) ==
    LET le(off) == <<buffer[off + 4] * 256 + buffer[off + 3],
                     buffer[off + 2] * 256 + buffer[off + 1]>>
    IN  [type |-> le(0), linkId |-> le(4), content |-> subarray(buffer, HEADER)]

\* decodeMessage of the server
decodeMessage(buffer) ==
    [type |-> readUInt32BE(buffer, 0),
     linkId |-> readUInt32BE(buffer, 4),
     content |-> subarray(buffer, HEADER)]

\* encodeMessage of the client
clientEncodeMessage(type, linkId, content) ==
    writeUInt32BE(type) \o writeUInt32BE(linkId) \o content

\* decodeMessage of the client
clientDecodeMessage(buffer) ==
    [type |-> readUInt32BE(buffer, 0),
     linkId |-> readUInt32BE(buffer, 4),
     content |-> subarray(buffer, HEADER)]

\* The two programs.
Sides == {"server", "client"}

\* The 32-bit values and the contents a message is made of: 0, the frame
\* types, values whose bytes differ, 2^16, 2^31 and 2^32 - 1; the empty
\* content and contents of one and two bytes.
Words == {<<0, 0>>, <<0, 1>>, <<0, 2>>, <<0, 10>>, <<0, 11>>, <<0, 258>>,
          <<1, 0>>, <<32768, 0>>, <<258, 772>>, <<65535, 65535>>}
Contents == {<<>>, <<0>>, <<255>>, <<1, 2>>}

\* A message handed to the encoder of one side, to be decoded by the other
\* or by the same one.
InitCodec ==
    /\ wsState = [c \in Chans |-> "none"]
    /\ clients = {}
    /\ links = [c \in Chans |-> EmptyMap]
    /\ boundServers = [c \in Chans |-> {}]
    /\ activeServers = EmptyMap
    /\ netServers = [c \in Chans |-> NoServer]
    /\ activeLinkIds = {}
    /\ ext = [s \in Conns |-> NoExt]
    /\ toClient = [c \in Chans |-> <<>>]
    /\ toServer = [c \in Chans |-> <<>>]
    /\ cli = [c \in Chans |-> "connecting"]
    /\ clinks = [c \in Chans |-> EmptyMap]
    /\ loc = [s \in Conns |-> NoLoc]
    /\ unavailable = {}
    /\ bindLog = [c \in Chans |-> [req |-> <<>>, acks |-> <<>>]]
    /\ mon = [c \in Chans |-> NoMon]
    /\ authFile = ListedFile
    /\ supervisor = NoSupervisor
    /\ authorizedClients = nonBlank(ListedFile.lines)
    /\ \E e \in Sides, d \in Sides, t \in Words, l \in Words, b \in Contents :
          codec = [stage |-> "input", enc |-> e, dec |-> d,
                   type |-> t, linkId |-> l, content |-> b]

tunnelVars == <<wsState, clients, links, boundServers, activeServers, netServers,
                activeLinkIds, ext, toClient, toServer, cli, clinks, loc,
                unavailable, bindLog, mon, authorizedClients, authFile, supervisor>>

\* The sender encodes the message.
encodeStep ==
    /\ codec.stage = "input"
    /\ codec' = [stage |-> "encoded", enc |-> codec.enc, dec |-> codec.dec,
                 type |-> codec.type, linkId |-> codec.linkId,
                 content |-> codec.content,
                 bytes |-> IF codec.enc = "server"
                           THEN encodeMessage(codec.type, codec.linkId, codec.content)
                           ELSE clientEncodeMessage(codec.type, codec.linkId,
                                                    codec.content)]
    /\ UNCHANGED tunnelVars

\* The receiver decodes what it was sent.
decodeStep ==
    /\ codec.stage = "encoded"
    /\ codec' = [stage |-> "decoded", enc |-> codec.enc, dec |-> codec.dec,
                 type |-> codec.type, linkId |-> codec.linkId,
                 content |-> codec.content, bytes |-> codec.bytes,
                 out |-> IF codec.dec = "server"
                         THEN decodeMessage(codec.bytes)
                         ELSE clientDecodeMessage(codec.bytes)]
    /\ UNCHANGED tunnelVars

NextCodec == encodeStep \/ decodeStep

SpecCodec == InitCodec /\ [][NextCodec]_vars

\* ================================================================ claims
\* The i-th chunk read from the external (side "e") or local (side "l")
\* socket of the link opened for accepted connection s.
ChunkOf(side, s, i) == [side |-> side, sock |-> s, idx |-> i]

\* q is <<ChunkOf(side, s, 1), ..., ChunkOf(side, s, Len(q))>>
IsPrefixOfReads(q, side, s) == \A i \in 1..Len(q) : q[i] = ChunkOf(side, s, i)

\* C1: for every link and in each direction, what has been written to the
\* destination socket is a prefix of what was read from the origin socket
\* of that link (the local socket dialled for an accepted connection and
\* that connection's external socket): nothing duplicated, reordered or
\* taken from another socket.
C1_PrefixInOrder ==
    \A s \in Conns :
        /\ IsPrefixOfReads(loc[s].written, "e", s)
        /\ IsPrefixOfReads(ext[s].written, "l", s)

\* C2: every OPEN the client handles gets exactly one response: one OPEN
\* ack when the dial succeeds, one CLOSE when it fails, never more than one
\* frame as the outcome of the dial.
C2_OneResponse ==
    \A d \in Conns :
        /\ loc[d].nAck <= 1
        /\ ~loc[d].connected => loc[d].nAck = 0 /\ loc[d].nClose <= 1

\* A control channel with both ends up and no frame in flight.
Quiet(c) ==
    /\ wsState[c] = "open"
    /\ cli[c] \in {"wait_ack", "bound"}
    /\ toClient[c] = <<>>
    /\ toServer[c] = <<>>

\* C3: whenever no frame is in flight on a channel, the server's link map
\* for it and the client's link map hold the same link ids.
C3_MapsAgreeWhenQuiet ==
    \A c \in Chans : Quiet(c) => DOMAIN links[c] = DOMAIN clinks[c]

\* No registered link holds more than 1 MiB of early data.
BufferBounded ==
    \A c \in Chans : \A l \in DOMAIN links[c] :
        links[c][l].bufferSize <= MAX_BUFFER_SIZE

\* Once the early buffer of a connection has overflowed, the server emits
\* no DATA frame carrying bytes of that connection.
SilentAfterOverflow ==
    \A s \in Conns : ext[s].overflowed => ext'[s].nsent = ext[s].nsent

\* C4: in every state every registered link has bufferSize <= 1 MiB, and
\* after the early buffer of a link has overflowed no DATA frame is emitted
\* for it again, neither its buffered chunks nor bytes read later.
C4_BoundedAndSilent == []BufferBounded /\ [][SilentAfterOverflow]_vars

\* The server can hand a frame to channel o.
CanSend(o) == wsState[o] = "open" /\ cli[o] # "exited"

\* C5: the step in which the early data of a link overflows ends the
\* external socket, removes the link from the link map and the live-id set
\* and emits CLOSE for it, and leaves the control channel registered.
C5_OverflowEmitsClose ==
    [][\A s \in Conns :
          (~ext[s].overflowed /\ ext'[s].overflowed) =>
              LET o == ext[s].owner
                  id == ext[s].id
              IN  /\ ext'[s].state # "open"
                  /\ id \notin DOMAIN links'[o]
                  /\ id \notin activeLinkIds'
                  /\ wsState'[o] = wsState[o]
                  /\ clients' = clients
                  /\ CanSend(o) =>
                        toClient'[o] = Append(toClient[o], Frame(CLOSE, id))]_vars

\* C6: the listening endpoints and the bind entries correspond one to one,
\* and every entry has a non-empty client set.
C6_ListenersMatchEntries ==
    /\ \A k \in DOMAIN activeServers :
          /\ activeServers[k].clients # {}
          /\ netServers[activeServers[k].server].state = "listening"
          /\ netServers[activeServers[k].server].key = k
    /\ \A c \in Chans :
          netServers[c].state = "listening" =>
              /\ netServers[c].key \in DOMAIN activeServers
              /\ activeServers[netServers[c].key].server = c

\* C6 witness: an entry shared by two clients, its listener listening.
C6_Witness ==
    \E k \in DOMAIN activeServers :
        /\ Cardinality(activeServers[k].clients) = 2
        /\ netServers[activeServers[k].server].state = "listening"

\* C7: every accepted connection was registered on, and its OPEN sent on, a
\* channel that was then open and a member of the entry's client set.
C7_AcceptOnLiveMember ==
    \A s \in Conns : ext[s].state # "none" => ext[s].acceptOk

\* C8: when the endpoint can be listened on, every BIND for it is answered
\* success:true, whatever the interleaving with another client's BIND and
\* listen.
C8_SharedBindSucceeds ==
    \A c \in Chans : \A i \in 1..Len(bindLog[c].acks) :
        netServers[c].key \notin unavailable => bindLog[c].acks[i].success

\* The BIND_ACK frames in flight to channel c.
AcksInFlight(c) ==
    {i \in 1..Len(toClient[c]) : toClient[c][i].type = BIND_ACK}

\* C9: every BIND the server processed is answered by exactly one BIND_ACK
\* on the same channel (none is missing once the listen has completed, none
\* is extra), and the ack carries the link_id of its request.
C9_OneAckSameId ==
    \A c \in Chans :
        /\ Len(bindLog[c].acks) <= Len(bindLog[c].req)
        /\ netServers[c].state # "pending" =>
              Len(bindLog[c].acks) = Len(bindLog[c].req)
        /\ \A i \in 1..Len(bindLog[c].acks) :
              bindLog[c].acks[i].linkId = bindLog[c].req[i]
        /\ \A i \in AcksInFlight(c) :
              /\ bindLog[c].req # <<>>
              /\ toClient[c][i].linkId = bindLog[c].req[1]
        /\ Cardinality(AcksInFlight(c)) <= Len(bindLog[c].req)

\* C9 witness: both clients' BINDs answered, the second with link id 1, one
\* by a new listener and one by the existing entry.
C9_Witness ==
    /\ \A c \in Chans : Len(bindLog[c].acks) = 1
    /\ \E c \in Chans : bindLog[c].req = <<1>> /\ AcksInFlight(c) # {}
    /\ \E c \in Chans : netServers[c].state = "none"

\* C10: once the server has handled the close of a control channel, no
\* link of that channel has an open external socket and no link is created
\* on it any more.
C10_NoLinkOutlivesChannel ==
    /\ \A c \in Chans :
          wsState[c] = "closed" =>
              \A l \in DOMAIN links[c] : ext[links[c][l].socket].state # "open"
    /\ \A s \in Conns : ~ext[s].afterClose

\* The link maps that hold an entry for accepted connection s.
EntriesOf(s) ==
    {e \in Chans \X LinkIds :
        e[2] \in DOMAIN links[e[1]] /\ links[e[1]][e[2]].socket = s}

\* The link of accepted connection s is CLOSED: it was registered by the
\* accept and is in no link map any more.
LinkClosed(s) == ext[s].state # "none" /\ EntriesOf(s) = {}

\* The link of accepted connection s is READY.
LinkReady(s) == \E e \in EntriesOf(s) : links[e[1]][e[2]].confirmed

\* C11: every link moves only forward, OPENING -> READY -> CLOSED: a link
\* that is READY is never unconfirmed again and stays under its channel and
\* id until it is removed, and once the link of an accepted connection is
\* removed it is never registered again and nothing more is written to its
\* socket.
C11_ForwardOnly ==
    [][\A s \in Conns :
          /\ LinkReady(s) => (LinkReady(s)' \/ LinkClosed(s)')
          /\ EntriesOf(s) # {} => (EntriesOf(s)' \subseteq EntriesOf(s))
          /\ LinkClosed(s) =>
                /\ LinkClosed(s)'
                /\ ext'[s].written = ext[s].written]_vars

\* C11 witness: a link that was READY (bytes were written to its external
\* socket) and is now CLOSED.
C11_Witness ==
    \E s \in Conns : LinkClosed(s) /\ ext[s].written # <<>>

\* The live links: the entries of the link maps of the registered channels.
LiveLinks == {e \in clients \X LinkIds : e[2] \in DOMAIN links[e[1]]}

\* C12: no id that generateUniqueLinkId can return is the key of a live
\* link, and no two live links, on whatever channels, have the same id.
C12_LiveIdsUnique ==
    /\ \A e \in LiveLinks : e[2] \notin generateUniqueLinkId
    /\ \A e1, e2 \in LiveLinks : e1[2] = e2[2] => e1 = e2

\* A message the codec cannot decode: fewer than 8 bytes, or a BIND whose
\* content is shorter than the 2 bytes of the port.
Malformed(f) ==
    \/ f.wire < HEADER
    \/ f.type = BIND /\ f.wire < HEADER + PORT_BYTES

\* C13: the step in which the server takes a malformed message from a
\* registered channel drops it: clients, link maps, bind entries and the
\* live-id set are unchanged, the channel stays registered and open, and the
\* frames behind it are still to be processed.
C13_MalformedDropped ==
    [][\A c \in Chans :
          (/\ handleControlData(c)
           /\ c \in clients
           /\ Malformed(Head(toServer[c]))) =>
              /\ clients' = clients
              /\ links' = links
              /\ activeServers' = activeServers
              /\ boundServers' = boundServers
              /\ activeLinkIds' = activeLinkIds
              /\ wsState'[c] = "open"
              /\ toServer'[c] = Tail(toServer[c])]_vars

\* The frame types of the protocol.
KnownTypes == {OPEN, CLOSE, DATA, BIND, BIND_ACK}

\* A frame of no known type, taken by the server or by the client, changes
\* nothing on that side and is answered by nothing.
UnknownIgnored ==
    \A c \in Chans :
        /\ (/\ handleControlData(c)
            /\ c \in clients
            /\ ~Malformed(Head(toServer[c]))
            /\ Head(toServer[c]).type \notin KnownTypes) =>
               /\ UNCHANGED <<wsState, clients, links, activeLinkIds, ext>>
               /\ UNCHANGED <<boundServers, activeServers, netServers>>
               /\ UNCHANGED toClient
        /\ (clientOnMessage(c) /\ Head(toClient[c]).type \notin KnownTypes) =>
               /\ UNCHANGED <<cli, clinks, loc, toServer>>

\* A CLOSE for a registered link closes that link, on the server and on the
\* client: the one recognized type whose handling shows in the link map.
CloseHandled ==
    \A c \in Chans :
        /\ (/\ handleControlData(c)
            /\ c \in clients
            /\ Head(toServer[c]).type = CLOSE
            /\ Head(toServer[c]).linkId \in DOMAIN links[c]) =>
               Head(toServer[c]).linkId \notin DOMAIN links'[c]
        /\ (/\ clientOnMessage(c)
            /\ Head(toClient[c]).type = CLOSE
            /\ Head(toClient[c]).linkId \in DOMAIN clinks[c]) =>
               Head(toClient[c]).linkId \notin DOMAIN clinks'[c]

\* C14: a frame of unknown type changes nothing on the side that receives
\* it and is answered by no frame, and every recognized type the peer may
\* send is handled, not treated as unknown: the server and the client both
\* close the link a CLOSE names.
C14_UnknownIgnoredKnownHandled ==
    [][UnknownIgnored /\ CloseHandled]_vars

\* The first half of C14 on its own.
UnknownIgnoredAlways == [][UnknownIgnored]_vars

\* C15: a DATA frame whose link id is not in the receiver's link map is
\* dropped, by the server and by the client: nothing is written to any
\* socket, no frame is emitted in response and the receiver's state is
\* unchanged.
C15_UnknownDataDropped ==
    [][\A c \in Chans :
          /\ (/\ handleControlData(c)
              /\ c \in clients
              /\ Head(toServer[c]).type = DATA
              /\ Head(toServer[c]).linkId \notin DOMAIN links[c]) =>
                 /\ UNCHANGED <<wsState, clients, links, activeLinkIds, ext>>
                 /\ UNCHANGED <<boundServers, activeServers, netServers>>
                 /\ UNCHANGED toClient
          /\ (/\ clientOnMessage(c)
              /\ Head(toClient[c]).type = DATA
              /\ Head(toClient[c]).linkId \notin DOMAIN clinks[c]) =>
                 /\ UNCHANGED <<cli, clinks, loc, toServer>>]_vars

\* C15 witness: on a channel that is still up at both ends a DATA frame
\* went each way and both were taken from the wire, yet no byte was written
\* to any socket: each arrived after its link had left the receiver's map.
C15_Witness ==
    \E c \in clients :
        /\ wsState[c] = "open" /\ cli[c] = "bound"
        /\ toClient[c] = <<>> /\ toServer[c] = <<>>
        /\ \E s \in Conns :
              ext[s].owner = c /\ ext[s].nsent > 0 /\ loc[s].nread > 0
        /\ \A d \in Conns : loc[d].written = <<>> /\ ext[d].written = <<>>

\* What a CLOSE touches on the server, as it is now.
LinkState == [ext |-> ext, links |-> links, ids |-> activeLinkIds]

\* C16: in every state and for every link id L of every registered channel,
\* handling CLOSE(L) twice in a row leaves the server where handling it once
\* does, and CLOSE(L) for an L that is not in the link map changes nothing.
C16_CloseIdempotent ==
    \A c \in clients : \A l \in LinkIds :
        LET once == closeLink(LinkState, c, l)
        IN  /\ closeLink(once, c, l) = once
            /\ l \notin DOMAIN links[c] => once = LinkState

\* C16 witness: the client sent CLOSE twice for one link and the server has
\* handled both on a channel that is still open: the first ended the
\* external socket, which has read nothing and was not closed otherwise.
C16_Witness ==
    \E d \in Conns :
        /\ loc[d].nClose = 2
        /\ ext[d].state = "ended" /\ ext[d].nread = 0
        /\ ext[d].owner = loc[d].chan
        /\ wsState[loc[d].chan] = "open" /\ toServer[loc[d].chan] = <<>>

\* C17: an OPEN(L) for a link that is already READY (server: L in the link
\* map with confirmed = true; client: L already in links) is a protocol
\* error: the receiver ends the link's socket and removes its entry.
C17_SecondOpenCloses ==
    [][\A c \in Chans :
          /\ (/\ handleControlData(c)
              /\ c \in clients
              /\ Head(toServer[c]).type = OPEN
              /\ Head(toServer[c]).linkId \in DOMAIN links[c]
              /\ links[c][Head(toServer[c]).linkId].confirmed) =>
                 LET l == Head(toServer[c]).linkId
                 IN  /\ l \notin DOMAIN links'[c]
                     /\ ext'[links[c][l].socket].state # "open"
          /\ (/\ clientOnMessage(c)
              /\ Head(toClient[c]).type = OPEN
              /\ Head(toClient[c]).linkId \in DOMAIN clinks[c]) =>
                 LET l == Head(toClient[c]).linkId
                 IN  /\ l \notin DOMAIN clinks'[c]
                     /\ loc'[clinks[c][l]].state \notin {"connecting", "open"}]_vars

\* The step in which a listen fails: BIND_ACK success:false goes to the
\* requester, no bind entry is created, the requester's bind set and its
\* registration are as before.
BindRefused ==
    \A c \in Chans :
        serverOnError(c) =>
            /\ UNCHANGED <<activeServers, boundServers, wsState, clients>>
            /\ netServers[c].key \notin boundServers'[c]
            /\ CanSend(c) =>
                  toClient'[c] =
                      Append(toClient[c], AckFrame(netServers[c].bindId, FALSE))

\* The step in which the client that waits for its bind takes BIND_ACK
\* success:false: the process exits (process.exit(1)).
RefusedClientExits ==
    \A c \in Chans :
        (/\ clientOnMessage(c)
         /\ cli[c] = "wait_ack"
         /\ Head(toClient[c]).type = BIND_ACK
         /\ ~Head(toClient[c]).success) => cli'[c] = "exited"

\* A client whose bind was refused on a channel that is still open has
\* exited once the refusal is no longer in flight.
RefusedClientGone ==
    \A c \in Chans :
        (/\ netServers[c].state = "failed"
         /\ wsState[c] = "open"
         /\ AcksInFlight(c) = {}) => cli[c] = "exited"

\* C18: when the server cannot listen on the requested endpoint it answers
\* BIND_ACK success:false, creates no bind entry, adds nothing to the
\* requester's bind set and leaves the channel registered and open; the
\* client exits on receiving success:false.
C18_BindRefused ==
    /\ []RefusedClientGone
    /\ [][BindRefused /\ RefusedClientExits]_vars

\* C18 witness: the endpoint cannot be listened on, the server answered
\* success:false and kept the channel registered with an empty bind set, and
\* the client has taken the answer and exited.
C18_Witness ==
    \E c \in clients :
        /\ netServers[c].state = "failed"
        /\ netServers[c].key \in unavailable
        /\ bindLog[c].acks # <<>> /\ ~bindLog[c].acks[1].success
        /\ wsState[c] = "open" /\ boundServers[c] = {}
        /\ activeServers = EmptyMap
        /\ cli[c] = "exited"

\* A connection the server closed with 1001 at admission is not in clients,
\* none of its frames was processed (no BIND logged, no listener, no bind
\* membership, no link), nothing is monitored on it and no frame is on its
\* way to it.
RejectedUnserved ==
    \A c \in Chans :
        wsState[c] = "rejected" =>
            /\ c \notin clients
            /\ bindLog[c] = [req |-> <<>>, acks |-> <<>>]
            /\ netServers[c].state = "none"
            /\ boundServers[c] = {} /\ links[c] = EmptyMap
            /\ \A k \in DOMAIN activeServers : c \notin activeServers[k].clients
            /\ \A s \in Conns : ext[s].state # "none" => ext[s].owner # c
            /\ mon[c] = NoMon
            /\ toClient[c] = <<>>

\* The admission step: without a certificate, without a public key or with
\* a key that is not listed the connection is closed with 1001 and not
\* registered, and a connection closed with 1001 stays closed.
RejectedAtAdmission ==
    \A c \in Chans :
        /\ \A cert \in Certs \ {"listed"} :
              onConnection(c, cert) => (wsState'[c] = "rejected" /\ c \notin clients')
        /\ wsState[c] = "rejected" => wsState'[c] = "rejected"

\* C19: a control connection that presents no certificate, no public key or
\* a key that is not in the allow-list is closed with code 1001 and never
\* added to clients; no frame from it is ever processed and no frame is
\* sent to it.
C19_RejectedNeverServed ==
    /\ []RejectedUnserved
    /\ [][RejectedAtAdmission]_vars

\* C19 witness: a rejected connection whose client has sent its BIND, which
\* sits unprocessed, while an admitted client is bound.
C19_Witness ==
    \E c \in Chans :
        /\ wsState[c] = "rejected"
        /\ toServer[c] # <<>> /\ Head(toServer[c]).type = BIND
        /\ activeServers # EmptyMap

\* A ping sent to channel c has not been answered yet: the ping, or the
\* pong for it, has not arrived.
Unanswered(c) == mon[c].pings + mon[c].pongs > 0

\* What a ping tick does to each registered channel whose socket is open.
TickRule ==
    pingTick =>
        \A c \in clients :
            wsState[c] = "open" =>
                IF Unanswered(c)
                THEN /\ wsState'[c] = "terminated"
                     /\ mon'[c].pings = mon[c].pings
                ELSE /\ wsState'[c] = "open"
                     /\ ~mon'[c].isAlive
                     /\ mon'[c].pings = mon[c].pings + 1

\* The monitor terminates no channel that has answered all its pings.
AnsweringSurvives ==
    \A c \in Chans :
        (wsState[c] = "open" /\ wsState'[c] = "terminated") => Unanswered(c)

\* C20: at every ping tick each open registered channel from which no pong
\* has arrived since its last ping is terminated and not pinged, and every
\* other one is marked not-alive and pinged; a channel whose pongs all
\* arrive before the next tick is never terminated by the monitor.
C20_PingTick == [][TickRule /\ AnsweringSurvives]_vars

\* C20 witness: one channel has answered MaxPongs pings in a row and is
\* open, another was terminated by the monitor.
C20_Witness ==
    \E b, c \in Chans :
        /\ wsState[b] = "open" /\ mon[b].answered = MaxPongs
        /\ wsState[c] = "terminated"

\* The server has torn channel c down: the close has been handled, c is
\* not registered, no link of c has an open external socket and c is in
\* the client set of no bind entry.
ServerDown(c) ==
    /\ wsState[c] = "closed"
    /\ c \notin clients
    /\ \A l \in DOMAIN links[c] : ext[links[c][l].socket].state # "open"
    /\ \A k \in DOMAIN activeServers : c \notin activeServers[k].clients

\* The client of channel c has torn down: its links map is empty, none of
\* its local sockets is open or connecting, and the process has exited with
\* status 1.
ClientDown(c) ==
    /\ cli[c] = "exited"
    /\ clinks[c] = EmptyMap
    /\ \A d \in Conns :
          loc[d].chan = c => loc[d].state \notin {"connecting", "open"}

\* The path of c is silent and the server has not handled the close of c
\* yet; the path is silent and the client process is still running.
SilentAtServer(c) == mon[c].hole /\ wsState[c] \in {"open", "terminated"}
SilentAtClient(c) == mon[c].hole /\ cli[c] \in {"connecting", "wait_ack", "bound"}

\* C21: once the path of a registered channel carries no ping and no pong
\* any more, the server eventually terminates the channel, ends the
\* external socket of every link of it and takes it out of every bind
\* entry, and the client eventually ends its local sockets and exits with
\* status 1.
C21_SilentPathTornDown ==
    \A c \in Chans :
        /\ SilentAtServer(c) ~> ServerDown(c)
        /\ SilentAtClient(c) ~> ClientDown(c)

\* C21 witness: the path went silent under a bound client with a link; the
\* server has closed the channel, ended the link's socket and dropped the
\* bind entry, and the client, its limit reached without a ping, has exited.
C21_Witness ==
    \E c \in Chans :
        /\ mon[c].hole /\ ServerDown(c) /\ ClientDown(c)
        /\ mon[c].age = LimitTicks
        /\ boundServers[c] # {} /\ activeServers = EmptyMap
        /\ \E l \in DOMAIN links[c] : ext[links[c][l].socket].state = "ended"
        /\ \E d \in Conns : loc[d].chan = c /\ loc[d].connected

\* The client process of channel c is running.
Running(c) == cli[c] \in {"connecting", "wait_ack", "bound"}

\* The step in which the client handles the close or an error of its
\* control channel, or in which its timer finds the limit passed: every
\* local socket in the links map is ended, the map is cleared and the
\* process exits with status 1.  A timer callback before the limit does
\* none of that.
CrashOnly ==
    \A c \in Chans :
        /\ (clientOnClose(c) \/ (clientInterval(c) /\ mon[c].age >= LimitTicks)) =>
              /\ \A l \in DOMAIN clinks[c] :
                    loc'[clinks[c][l]].state \notin {"connecting", "open"}
              /\ clinks'[c] = EmptyMap
              /\ cli'[c] = "exited"
        /\ (clientInterval(c) /\ mon[c].age < LimitTicks) =>
              UNCHANGED <<cli, clinks, loc>>

\* A process that has left "connecting" never connects again, and one that
\* has exited stays so; its one connection is never replaced by a new one.
OneConnection ==
    \A c \in Chans :
        /\ cli[c] # "connecting" => cli'[c] # "connecting"
        /\ ~Running(c) => cli'[c] = cli[c]
        /\ wsState[c] # "none" => wsState'[c] # "none"

\* No client process has ended with status 0.
NeverExitsZero == \A c \in Chans : cli[c] # "exited0"

C23_ReconnectsItself ==
    [][\A c \in Chans :
          (clientOnClose(c) /\ cli[c] = "bound") => Running(c)']_vars

\* b is the four bytes of v, most significant first.
IsBigEndian(b, v) ==
    /\ Len(b) = 4
    /\ \A i \in 1..4 : b[i] \in 0..255
    /\ b[1] * 256 + b[2] = v[1]
    /\ b[3] * 256 + b[4] = v[2]

\* C24: the encoded frame is the 4-byte big-endian type, the 4-byte
\* big-endian link id and then the content, with nothing added, and decoding
\* it gives back exactly the type, the link id and the content that were
\* encoded, whichever of the two programs encodes and whichever decodes.
C24_CodecRoundTrip ==
    /\ codec.stage \in {"encoded", "decoded"} =>
          /\ Len(codec.bytes) = HEADER + Len(codec.content)
          /\ IsBigEndian(SubSeq(codec.bytes, 1, 4), codec.type)
          /\ IsBigEndian(SubSeq(codec.bytes, 5, 8), codec.linkId)
          /\ SubSeq(codec.bytes, HEADER + 1, Len(codec.bytes)) = codec.content
    /\ codec.stage = "decoded" =>
          codec.out = [type |-> codec.type, linkId |-> codec.linkId,
                       content |-> codec.content]

\* C24 witness: a frame of type 2^32 - 1 with link id 0 and an empty
\* content, encoded by the client and decoded by the server.
C24_Witness ==
    /\ codec.stage = "decoded"
    /\ codec.enc = "client" /\ codec.dec = "server"
    /\ codec.type = <<65535, 65535>>
    /\ codec.linkId = <<0, 0>> /\ codec.content = <<>>
    /\ codec.out.linkId = <<0, 0>> /\ codec.out.content = <<>>

\* The client of channel c can hand a frame to its control socket.
CliCanSend(c) == wsState[c] \in {"open", "rejected"}

\* The link of external socket s is registered: its id is in its channel's
\* link map, for this socket.  Likewise the link of local socket d.
ExtLinked(s) ==
    /\ ext[s].id \in DOMAIN links[ext[s].owner]
    /\ links[ext[s].owner][ext[s].id].socket = s
LocLinked(d) ==
    /\ loc[d].id \in DOMAIN clinks[loc[d].chan]
    /\ clinks[loc[d].chan][loc[d].id] = d

\* C25: the step in which the owned socket of a registered link closes or
\* errors (an error together with the close that follows it) removes the
\* link's entry and emits exactly one CLOSE for it, on the server and on
\* the client; if the link was already gone it emits none.
C25_OneCloseOnSocketEnd ==
    [][/\ \A s \in Conns :
             (socketOnClose(s) \/ socketOnError(s)) =>
                 LET o == ext[s].owner
                 IN  IF ExtLinked(s)
                     THEN /\ ext[s].id \notin DOMAIN links'[o]
                          /\ CanSend(o) =>
                                toClient'[o] =
                                    Append(toClient[o], Frame(CLOSE, ext[s].id))
                     ELSE toClient'[o] = toClient[o]
       /\ \A d \in Conns :
             (localOnClose(d) \/ localOnError(d)) =>
                 LET c == loc[d].chan
                 IN  IF LocLinked(d)
                     THEN /\ loc[d].id \notin DOMAIN clinks'[c]
                          /\ CliCanSend(c) =>
                                toServer'[c] =
                                    Append(toServer[c], Frame(CLOSE, loc[d].id))
                     ELSE toServer'[c] = toServer[c]]_vars

\* The client's half of C25 on its own.
OneCloseOnLocalEnd ==
    [][\A d \in Conns :
          (localOnClose(d) \/ localOnError(d)) =>
              LET c == loc[d].chan
              IN  IF LocLinked(d)
                  THEN /\ loc[d].id \notin DOMAIN clinks'[c]
                       /\ CliCanSend(c) =>
                             toServer'[c] =
                                 Append(toServer[c], Frame(CLOSE, loc[d].id))
                  ELSE toServer'[c] = toServer[c]]_vars

\* The frames a step has appended to queue q, whose next value is r.
Emitted(q, r) ==
    IF Len(r) > Len(q) /\ SubSeq(r, 1, Len(q)) = q
    THEN {r[i] : i \in (Len(q) + 1)..Len(r)}
    ELSE {}

\* C26: every DATA(L) frame the server emits carries bytes of an external
\* socket whose link L is registered and confirmed and whose opening the
\* client has acked (the local socket dialled for that opening has emitted
\* its OPEN(L)); every DATA(L) frame the client emits comes from a local
\* socket whose OPEN(L) ack the client has emitted before; and the server
\* writes to an external socket only for a DATA(L) frame whose link L is
\* confirmed.
C26_NoDataBeforeAck ==
    [][\A c \in Chans :
          /\ \A f \in Emitted(toClient[c], toClient'[c]) :
                f.type = DATA =>
                    /\ f.linkId \in DOMAIN links'[c]
                    /\ links'[c][f.linkId].confirmed
                    /\ loc[f.chunk.sock].chan = c
                    /\ loc[f.chunk.sock].id = f.linkId
                    /\ loc[f.chunk.sock].nAck >= 1
          /\ \A f \in Emitted(toServer[c], toServer'[c]) :
                f.type = DATA =>
                    /\ loc[f.chunk.sock].chan = c
                    /\ loc[f.chunk.sock].id = f.linkId
                    /\ loc[f.chunk.sock].nAck >= 1
          /\ \A s \in Conns :
                (ext[s].owner = c /\ ext'[s].written # ext[s].written) =>
                    \E l \in DOMAIN links[c] :
                        links[c][l].socket = s /\ links[c][l].confirmed]_vars

\* The bytes held by early buffer b.
RECURSIVE BufferBytes(_)
BufferBytes(b) == IF b = <<>> THEN 0 ELSE Head(b).len + BufferBytes(Tail(b))

\* Every registered link accounts for its early buffer, and a confirmed
\* link has none.
BufferAccounted ==
    \A c \in Chans : \A l \in DOMAIN links[c] :
        /\ links[c][l].bufferSize = BufferBytes(links[c][l].buffer)
        /\ links[c][l].confirmed =>
              links[c][l].buffer = <<>> /\ links[c][l].bufferSize = 0

\* The step in which the server handles the ack of a registered link emits
\* one DATA frame per buffered chunk, in the order of arrival, and leaves
\* the link confirmed with an empty buffer.
DrainOnAck ==
    \A c \in Chans :
        (/\ handleControlData(c)
         /\ c \in clients
         /\ Head(toServer[c]).type = OPEN
         /\ Head(toServer[c]).linkId \in DOMAIN links[c]) =>
            LET l == Head(toServer[c]).linkId
                b == links[c][l].buffer
            IN  /\ links'[c][l].confirmed
                /\ links'[c][l].buffer = <<>>
                /\ CanSend(c) =>
                      /\ Len(toClient'[c]) = Len(toClient[c]) + Len(b)
                      /\ SubSeq(toClient'[c], 1, Len(toClient[c])) = toClient[c]
                      /\ \A i \in 1..Len(b) :
                            toClient'[c][Len(toClient[c]) + i] =
                                DataFrame(l, b[i].chunk, b[i].len)

\* C27: for every registered link bufferSize is the sum of the lengths of
\* the chunks in buffer, a confirmed link has an empty buffer and
\* bufferSize 0, and the drain on ack emits one DATA frame per buffered
\* chunk and clears the buffer.
C27_BufferAccounted == []BufferAccounted /\ [][DrainOnAck]_vars

\* C27 witness: an unconfirmed link holds two chunks, together exactly
\* 1 MiB, and its ack is the next frame the server will handle.
C27_Witness ==
    \E c \in clients : \E l \in DOMAIN links[c] :
        /\ ~links[c][l].confirmed
        /\ Len(links[c][l].buffer) = 2
        /\ links[c][l].bufferSize = MAX_BUFFER_SIZE
        /\ wsState[c] = "open"
        /\ toServer[c] # <<>>
        /\ Head(toServer[c]) = Frame(OPEN, l)

\* The dial of local socket d has failed: it was closed by an error before
\* it ever connected.
DialFailed(d) == loc[d].state = "closed" /\ ~loc[d].connected /\ loc[d].nClose > 0

\* The step in which a dial fails: the link id leaves the client's links
\* map, what is sent is CLOSE for that id, the process and its control
\* channel stay as they are and so does every other entry of the map.
DialFailure ==
    \A d \in Conns :
        (localOnError(d) /\ loc[d].state = "connecting") =>
            LET c == loc[d].chan
                l == loc[d].id
            IN  /\ l \notin DOMAIN clinks'[c]
                /\ \A m \in DOMAIN clinks[c] \ {l} :
                      m \in DOMAIN clinks'[c] /\ clinks'[c][m] = clinks[c][m]
                /\ CliCanSend(c) =>
                      Emitted(toServer[c], toServer'[c]) = {Frame(CLOSE, l)}
                /\ cli'[c] = cli[c] /\ wsState'[c] = wsState[c]
                /\ \A e \in Conns \ {d} : loc'[e] = loc[e]

\* The step in which the server handles CLOSE(L) for a registered link:
\* the link's external socket is ended and L leaves the link map.
ServerClosesLink ==
    \A c \in Chans :
        (/\ handleControlData(c)
         /\ c \in clients
         /\ Head(toServer[c]).type = CLOSE
         /\ Head(toServer[c]).linkId \in DOMAIN links[c]) =>
            LET l == Head(toServer[c]).linkId
            IN  /\ l \notin DOMAIN links'[c]
                /\ ext'[links[c][l].socket].state # "open"

\* No OPEN is ever sent for a dial that failed, and once the frames of the
\* client have all been handled on a channel that is still open, neither
\* side holds the link of a failed dial and the external socket of that
\* opening is no longer open.
FailedDialGone ==
    \A d \in Conns :
        DialFailed(d) =>
            /\ loc[d].nAck = 0
            /\ (wsState[loc[d].chan] = "open" /\ toServer[loc[d].chan] = <<>>) =>
                  /\ EntriesOf(d) = {}
                  /\ ext[d].state # "open"
                  /\ ~LocLinked(d)

\* C28: when the dial for OPEN(L) fails the client removes L from its links
\* map and sends CLOSE(L), never sends OPEN(L) for that opening, and keeps
\* the control channel and its other links; the server, on that CLOSE(L),
\* ends the external socket and removes L, so that neither side holds L
\* once the CLOSE has arrived.
C28_DialFailure ==
    /\ []FailedDialGone
    /\ [][DialFailure /\ ServerClosesLink]_vars


\* The channels that have not closed on the server.
NotClosed == {c \in Chans : wsState[c] \in {"open", "terminated"}}

\* The step in which channel c closes on the server: c leaves the client
\* set of every bind entry it is in; an entry it was alone in is removed and
\* its listener closed, an entry with another participant stays, with its
\* listener listening; every other entry stays as it is.
ChannelLeaves ==
    \A c \in Chans :
        wsOnClose(c) =>
            \A k \in DOMAIN activeServers :
                LET e == activeServers[k]
                IN  IF c \notin e.clients
                    THEN k \in DOMAIN activeServers' /\ activeServers'[k] = e
                    ELSE IF e.clients = {c}
                    THEN /\ k \notin DOMAIN activeServers'
                         /\ netServers'[e.server].state = "closed"
                    ELSE /\ k \in DOMAIN activeServers'
                         /\ activeServers'[k] = [e EXCEPT !.clients = @ \ {c}]
                         /\ netServers'[e.server].state = "listening"

\* An external connection is accepted only on an endpoint whose bind entry
\* has a participant that has not closed.
AcceptedForParticipant ==
    \A s \in Conns, o \in Chans :
        acceptCallback(s, o) =>
            LET k == netServers[o].key
            IN  /\ k \in DOMAIN activeServers
                /\ activeServers[k].clients \cap NotClosed # {}

\* C29: when a channel closes on the server it is removed from the client
\* set of every bind entry it participates in; an entry emptied thereby has
\* its listener closed and is removed in the same step, an entry with
\* another participant keeps its listener and stays; and after the last
\* participant has left no further external connection is accepted on the
\* endpoint.
C29_ChannelCloseLeavesBinds == [][ChannelLeaves /\ AcceptedForParticipant]_vars


\* The client set of bind entry k, empty when the registry has no entry k.
ParticipantsOf(k) ==
    IF k \in DOMAIN activeServers THEN activeServers[k].clients ELSE {}

\* Every member of a bind entry is a registered client that has the key in
\* its boundServers.
MembersAreBound ==
    \A k \in DOMAIN activeServers : \A c \in activeServers[k].clients :
        c \in clients /\ k \in boundServers[c]

\* Every key in the boundServers of a registered client has an entry that
\* the client is a member of.
BoundAreMembers ==
    \A c \in clients : \A k \in boundServers[c] : c \in ParticipantsOf(k)

\* C30: in every reachable state a channel is in the client set of bind
\* entry k if and only if it is a registered client and k is in its
\* boundServers; a listen that completes after the channel has closed adds
\* the channel to no entry.
C30_BindMembershipConsistent == MembersAreBound /\ BoundAreMembers


\* The ids of the links of the registered clients.
LiveLinkIds == UNION {DOMAIN links[c] : c \in clients}

\* Every id of a link of a registered client is in activeLinkIds.
NoLiveIdMissing == LiveLinkIds \subseteq activeLinkIds

\* Every id in activeLinkIds is the id of a link of a registered client.
NoIdLeaked == activeLinkIds \subseteq LiveLinkIds

\* C31: in every reachable state activeLinkIds equals the union of the key
\* sets of the link maps of the registered clients: no live id is missing
\* from the set and no id in the set is leaked.
C31_ActiveIdsAreLiveIds == NoLiveIdMissing /\ NoIdLeaked


\* A "data", "close" or "error" event of external socket s leaves the link
\* of every other socket as it is.
SocketEventsSpareOthers ==
    \A s \in Conns :
        (socketOnClose(s) \/ socketOnError(s)
            \/ \E n \in ChunkLens : socketOnData(s, n)) =>
            \A c \in Chans : \A l \in DOMAIN links[c] :
                links[c][l].socket # s =>
                    l \in DOMAIN links'[c] /\ links'[c][l] = links[c][l]

\* A "close" or "error" event of local socket d leaves the entry of every
\* other local socket in the client's links map.
LocalEventsSpareOthers ==
    \A d \in Conns :
        (localOnClose(d) \/ localOnError(d)) =>
            \A c \in Chans : \A l \in DOMAIN clinks[c] :
                clinks[c][l] # d =>
                    l \in DOMAIN clinks'[c] /\ clinks'[c][l] = clinks[c][l]

\* An OPEN(L) ack confirms, and a CLOSE(L) removes, only a link whose own
\* opening the client has acked, or closed: the local socket dialled for
\* that opening is the one that sent the frame.
FramesSpareLater ==
    \A c \in Chans :
        (handleControlData(c) /\ c \in clients) =>
            \A l \in DOMAIN links[c] :
                LET s == links[c][l].socket
                    f == Head(toServer[c])
                IN  /\ (/\ f.type = OPEN /\ f.linkId = l
                        /\ ~links[c][l].confirmed
                        /\ l \in DOMAIN links'[c] /\ links'[c][l].confirmed) =>
                           (loc[s].chan = c /\ loc[s].id = l /\ loc[s].nAck >= 1)
                    /\ (/\ f.type = CLOSE /\ f.linkId = l
                        /\ l \notin DOMAIN links'[c]) =>
                           (loc[s].chan = c /\ loc[s].id = l /\ loc[s].nClose >= 1)

\* Every chunk written to a socket was read from the socket at the other
\* end of the same opening.
WritesReachOwnLink ==
    /\ \A s \in Conns : \A i \in 1..Len(ext[s].written) :
          ext[s].written[i].side = "l" /\ ext[s].written[i].sock = s
    /\ \A d \in Conns : \A i \in 1..Len(loc[d].written) :
          loc[d].written[i].side = "e" /\ loc[d].written[i].sock = d

\* C32: recycling a link id causes no cross-talk: a frame or a socket event
\* of an earlier, closed incarnation of id L never closes, confirms, removes
\* or writes to a later link that was given the same id, on the server and
\* on the client.
C32_NoCrossTalk ==
    /\ []WritesReachOwnLink
    /\ [][/\ SocketEventsSpareOthers
          /\ LocalEventsSpareOthers
          /\ FramesSpareLater]_vars


\* The array is a whole snapshot: the non-blank lines of the file as the
\* last load that could read it has read them, in the file's order.
ListIsSnapshot == authorizedClients = nonBlank(authFile.loaded)

\* The step of a reload: the array becomes the non-blank lines of the file
\* when the file can be read and stays as it is when it cannot, and nothing
\* else of the server changes.
ReloadSwaps ==
    fsWatchCallback =>
        /\ authorizedClients' =
              IF authFile.readable THEN nonBlank(authFile.lines)
              ELSE authorizedClients
        /\ UNCHANGED allowExcluded

\* Only a reload changes the array.
OnlyReloadChanges == ~fsWatchCallback => UNCHANGED authorizedClients

\* An admission check decides by the array as it is in that state.
AdmissionSeesList ==
    \A c \in Chans, cert \in Certs :
        onConnection(c, cert) =>
            IF cert \in Elements(authorizedClients)
            THEN wsState'[c] = "open" /\ c \in clients'
            ELSE wsState'[c] = "rejected" /\ c \notin clients'

\* C33: a reload of the allow-list replaces the whole list in one step, so
\* that an admission check sees the complete old list or the complete new
\* one; a reload that cannot read the file leaves the previous list in
\* effect; and a reload changes nothing else: channels admitted earlier stay
\* registered, with their links and bind entries, when their hash is no
\* longer listed.
C33_ReloadSwapsSnapshot ==
    /\ []ListIsSnapshot
    /\ [][ReloadSwaps /\ OnlyReloadChanges /\ AdmissionSeesList]_vars

\* C33 witness: a channel admitted with a hash that a reload has dropped
\* from the list is registered, with a bind entry and a link, and the last
\* reload, which could not read the file, has left that list in place.
C33_Witness ==
    /\ authorizedClients = <<"other">>
    /\ authFile.last = "failed" /\ ~authFile.readable /\ ~authFile.changed
    /\ \E c \in clients :
          /\ wsState[c] = "open"
          /\ boundServers[c] # {}
          /\ \A k \in boundServers[c] : c \in ParticipantsOf(k)
          /\ DOMAIN links[c] # {}


\* The loop's turn after the command has ended: status 1 sends it to the
\* pause, any other status ends it.
LoopTestsStatus ==
    supervisorWait =>
        /\ supervisor'.exit_code = ExitStatus(supervisor.run)
        /\ supervisor'.pc = IF supervisor'.exit_code = 1 THEN "sleep" ELSE "done"

\* The command is started again only after it has ended with status 1 and
\* the pause of 5 seconds is over, and a loop that has stopped stays so.
RestartAfterPause ==
    /\ (supervisor'.run # supervisor.run /\ supervisor.run >= 1) =>
          /\ supervisor'.run = supervisor.run + 1
          /\ supervisor.exit_code = 1
          /\ supervisor.slept = SLEEP_SECONDS
          /\ cli[supervisor.run] = "exited"
    /\ supervisor.pc = "done" => supervisor' = supervisor

\* Whatever ends the client from inside (the channel lost, the bind refused,
\* no ping for 30 s) ends it with status 1.
FatalExitsOne ==
    \A c \in Chans :
        (/\ cli[c] \in {"connecting", "wait_ack", "bound"}
         /\ cli'[c] \notin {"connecting", "wait_ack", "bound"}
         /\ ~clientKilled(c)) => cli'[c] = "exited"

\* The loop ends only when the client was killed from outside.
StopsOnlyWhenKilled ==
    supervisor.pc = "done" =>
        /\ cli[supervisor.run] = "killed"
        /\ supervisor.exit_code # 1

\* A client that has ended with status 1 is started again, as long as the
\* model has a run left for it.
RestartedAfterExit ==
    \A c \in 1..(NumChans - 1) :
        (supervisor.run = c /\ cli[c] = "exited") ~> (supervisor.run = c + 1)

\* C34: the loop runs the command again after a pause of 5 seconds every
\* time it ends with status 1 and stops as soon as it ends with another
\* status; the client ends with status 1 on every fatal condition, so a
\* supervised client is started again after every channel loss, bind refusal
\* or heartbeat starvation and the loop never ends on its own.
C34_SupervisedRestart ==
    /\ []StopsOnlyWhenKilled
    /\ [][LoopTestsStatus /\ RestartAfterPause /\ FatalExitsOne]_vars
    /\ RestartedAfterExit

\* C34 witness: the first client, bound, has ended for want of pings, the
\* loop has paused and started the second, which is bound.
C34_Witness ==
    /\ supervisor.run = 2 /\ supervisor.pc = "wait"
    /\ supervisor.exit_code = 1
    /\ cli[1] = "exited" /\ mon[1].hole /\ mon[1].age >= LimitTicks
    /\ cli[2] = "bound"

====
